---- MODULE Spec2Model ----
(***************************************************************************)
(* dumb-cgi: the request parser of src/src/request.rs.                     *)
(*                                                                         *)
(* Bytes are the integers 0..255, byte strings are sequences of bytes, and *)
(* a Rust index i (0-based) addresses element i+1 of the sequence.         *)
(* Option<T> is a sequence of length at most one: None is << >> and        *)
(* Some(x) is <<x>>.  A HashMap is a function whose DOMAIN is its key set. *)
(***************************************************************************)
EXTENDS Integers, Sequences, FiniteSets, TLC

VARIABLES
    body_bytes,     \* read_multipart_body: the body buffer
    boundary,       \* read_multipart_body: the boundary token (without "--")
    shape,          \* how body_bytes was framed: the parts it was built from
    pc,             \* read_multipart_body: the place control is at
    position,       \* read_multipart_body: `position`
    pos,            \* find_next_multipart_chunk_end: `pos`
    subslice,       \* find_next_multipart_chunk_end: the offset `subslice` starts at
    next_position,  \* read_multipart_body: `next_position`, an Option
    chunks,         \* read_multipart_body: `chunks`, each a span of body_bytes
    body,           \* read_multipart_body: the Body it returns
    chunk,          \* read_multipart_chunk: the chunk it is given
    part,           \* read_multipart_chunk: what it returns
    qstr,           \* url_decode, parse_query_string: the string given
    qshape,         \* how qstr was written: its tokens, or its name=value chunks
    decoded,        \* url_decode: what it returns
    query,          \* parse_query_string: the Query it returns
    env,            \* Request::new: the environment, (key, value) entries in order
    rshape,         \* how env was written: the entries chosen for it
    stdin,          \* read_body: the bytes the input stream holds
    stdin_fails,    \* read_body: whether a read of the input stream fails
    stdin_pos,      \* read_body: how many bytes of stdin were consumed
    env_idx,        \* Request::new: the entry the `for (k, v)` loop is at
    vars_map,       \* Request::new: `vars`
    headers_map,    \* Request::new: `headers`
    body_len,       \* read_body: `body_len`, as decimal digits
    rpc,            \* Request::new: the place control is at
    ret,            \* Request::new: what it returns
    resp,           \* the EmptyResponse or FullResponse being built
    added,          \* the add_header / with_header calls made, in order
    out,            \* respond: what it wrote to stdout
    body_log        \* the response with_content_type consumed, the argument of
                    \* the last with_body, the buffers written since, and
                    \* what the last write returned

multipartVars == <<body_bytes, boundary, shape, pc, position, pos, subslice,
                   next_position, chunks, body>>
chunkVars == <<chunk, part>>

queryVars == <<qstr, qshape, decoded, query>>

requestVars == <<env, rshape, stdin, stdin_fails, stdin_pos, env_idx, vars_map,
                 headers_map, body_len, rpc, ret>>

responseVars == <<resp, added, out, body_log>>

vars == <<multipartVars, chunkVars, queryVars, requestVars, responseVars>>

(***************************************************************************)
(* Bounds of the model.                                                    *)
(***************************************************************************)
MaxPieces == 4
MaxParts == 2
MaxChunkPieces == 5
MaxTokens == 3
MaxPairs == 3

(***************************************************************************)
(* Program constants.                                                      *)
(***************************************************************************)
PLUS == 43
PERCENT == 37
\* Faulty variant of SPACE: a `+` is copied as it is.
SPACE_is_plus == PLUS

SPACE == 32
COLON == 58
HTTP_NEWLINE == <<13, 10>>

None == << >>
Some(x) == <<x>>

(***************************************************************************)
(* Slices.  A slice whose range is out of the buffer panics in Rust; the   *)
(* InRange predicates are the conditions under which it does not.          *)
(***************************************************************************)
InRangeFrom(s, i) == i <= Len(s)
InRange(s, i, j) == i <= j /\ j <= Len(s)
SliceFrom(s, i) == SubSeq(s, i + 1, Len(s))
Slice(s, i, j) == SubSeq(s, i + 1, j)

Min(S) == CHOOSE x \in S : \A y \in S : x <= y

\* Faulty variant of starts_with: every slice is taken to start with the prefix.
starts_with_anything(s, prefix) == TRUE

\* Faulty variant of starts_with: the prefix has to be followed by a newline,
\* by `-` or by the end of the slice.
starts_with_line(s, prefix) ==
    /\ Len(s) >= Len(prefix)
    /\ SubSeq(s, 1, Len(prefix)) = prefix
    /\ Len(s) > Len(prefix) => s[Len(prefix) + 1] \in {13, 45}

starts_with(s, prefix) ==
    Len(prefix) <= Len(s) /\ SubSeq(s, 1, Len(prefix)) = prefix

slicey_find(haystack, needle) ==
    IF needle = << >>
    THEN None
    ELSE LET hits == {n \in 0..(Len(haystack) - Len(needle)) :
                         Slice(haystack, n, n + Len(needle)) = needle}
         IN  IF hits = {} THEN None ELSE Some(Min(hits))

(***************************************************************************)
(* HashMap<String, String>.                                                *)
(***************************************************************************)
EmptyMap == [k \in {} |-> k]
\* Faulty variant of insert: a key that is present keeps its value.
insert_keep_first(m, k, v) ==
    [x \in DOMAIN m \cup {k} |-> IF x \in DOMAIN m THEN m[x] ELSE v]

insert(m, k, v) == [x \in DOMAIN m \cup {k} |-> IF x = k THEN v ELSE m[x]]

(***************************************************************************)
(* UTF-8 (std::str::from_utf8, String::from_utf8, String::from_utf8_lossy).*)
(* Utf8Step(s, i) reads the byte sequence that starts at element i: ok     *)
(* says whether a well-formed scalar value starts there, n is its length   *)
(* or, when it is ill-formed, the length of the maximal ill-formed subpart *)
(* that from_utf8_lossy replaces by one U+FFFD.                            *)
(***************************************************************************)
Utf8Width(b) ==
    IF b < 128 THEN 1
    ELSE IF b >= 194 /\ b <= 223 THEN 2
    ELSE IF b >= 224 /\ b <= 239 THEN 3
    ELSE IF b >= 240 /\ b <= 244 THEN 4
    ELSE 0

Utf8SecondOk(lead, b) ==
    IF lead = 224 THEN b >= 160 /\ b <= 191
    ELSE IF lead = 237 THEN b >= 128 /\ b <= 159
    ELSE IF lead = 240 THEN b >= 144 /\ b <= 191
    ELSE IF lead = 244 THEN b >= 128 /\ b <= 143
    ELSE b >= 128 /\ b <= 191

Utf8Cont(s, i) == i <= Len(s) /\ s[i] >= 128 /\ s[i] <= 191

Utf8Step(s, i) ==
    LET w == Utf8Width(s[i])
    IN  IF w = 0 THEN [ok |-> FALSE, n |-> 1]
        ELSE IF w = 1 THEN [ok |-> TRUE, n |-> 1]
        ELSE IF ~(i + 1 <= Len(s) /\ Utf8SecondOk(s[i], s[i + 1]))
             THEN [ok |-> FALSE, n |-> 1]
        ELSE IF w = 2 THEN [ok |-> TRUE, n |-> 2]
        ELSE IF ~Utf8Cont(s, i + 2) THEN [ok |-> FALSE, n |-> 2]
        ELSE IF w = 3 THEN [ok |-> TRUE, n |-> 3]
        ELSE IF ~Utf8Cont(s, i + 3) THEN [ok |-> FALSE, n |-> 3]
        ELSE [ok |-> TRUE, n |-> 4]

RECURSIVE Utf8ValidFrom(_, _)
Utf8ValidFrom(s, i) ==
    IF i > Len(s) THEN TRUE
    ELSE LET st == Utf8Step(s, i)
         IN  st.ok /\ Utf8ValidFrom(s, i + st.n)

Utf8Valid(s) == Utf8ValidFrom(s, 1)

REPLACEMENT_CHARACTER == <<239, 191, 189>>

RECURSIVE LossyFrom(_, _)
LossyFrom(s, i) ==
    IF i > Len(s) THEN << >>
    ELSE LET st == Utf8Step(s, i)
         IN  (IF st.ok THEN SubSeq(s, i, i + st.n - 1) ELSE REPLACEMENT_CHARACTER)
             \o LossyFrom(s, i + st.n)

from_utf8_lossy(s) == LossyFrom(s, 1)

(***************************************************************************)
(* str::trim, str::trim_start, str::to_lowercase on the UTF-8 bytes of a   *)
(* string.  The white space and the case mapping modelled are the ASCII    *)
(* ones; bytes of multi-byte characters are left as they are.              *)
(***************************************************************************)
is_whitespace(b) == b \in {9, 10, 11, 12, 13, 32}

RECURSIVE trim_start(_)
trim_start(s) ==
    IF s # << >> /\ is_whitespace(Head(s)) THEN trim_start(Tail(s)) ELSE s

RECURSIVE trim_end(_)
trim_end(s) ==
    IF s # << >> /\ is_whitespace(s[Len(s)])
    THEN trim_end(SubSeq(s, 1, Len(s) - 1))
    ELSE s

trim(s) == trim_end(trim_start(s))

to_lowercase(s) ==
    [i \in 1..Len(s) |-> IF s[i] >= 65 /\ s[i] <= 90 THEN s[i] + 32 ELSE s[i]]

\* Faulty variant of match_header: the value is trimmed at both ends.
match_header_trim_value(bytes) ==
    LET colons == {i \in 0..(Len(bytes) - 1) : bytes[i + 1] = COLON}
    IN  IF colons = {}
        THEN None
        ELSE LET sep_idx == Min(colons)
                 key == to_lowercase(trim(from_utf8_lossy(Slice(bytes, 0, sep_idx))))
                 val == trim(from_utf8_lossy(SliceFrom(bytes, sep_idx + 1)))
             IN  Some(<<key, val>>)

(***************************************************************************)
(* match_header: Some(<<name, value>>), or None when there is no colon.    *)
(***************************************************************************)
match_header(bytes) ==
    LET colons == {i \in 0..(Len(bytes) - 1) : bytes[i + 1] = COLON}
    IN  IF colons = {}
        THEN None
        ELSE LET sep_idx == Min(colons)
                 key == to_lowercase(trim(from_utf8_lossy(Slice(bytes, 0, sep_idx))))
                 val == trim_start(from_utf8_lossy(SliceFrom(bytes, sep_idx + 1)))
             IN  Some(<<key, val>>)

\* Faulty variant of chunk_loop: the last line of the chunk, which no newline ends,
\* is read as a header line too.
RECURSIVE chunk_loop_last_line(_, _, _)
chunk_loop_last_line(ch, at, headers) ==
    IF ~InRangeFrom(ch, at)
    THEN [panic |-> TRUE, headers |-> headers, position |-> at]
    ELSE LET found == slicey_find(SliceFrom(ch, at), HTTP_NEWLINE)
             last == match_header(SliceFrom(ch, at))
         IN  IF found = None
             THEN IF last # None
                  THEN [panic |-> FALSE,
                        headers |-> insert(headers, last[1][1], last[1][2]),
                        position |-> Len(ch)]
                  ELSE [panic |-> FALSE, headers |-> headers, position |-> at]
             ELSE LET next_pos == at + found[1]
                      kv == match_header(Slice(ch, at, next_pos))
                  IN  IF kv # None
                      THEN chunk_loop_last_line(ch, next_pos + Len(HTTP_NEWLINE),
                                                insert(headers, kv[1][1], kv[1][2]))
                      ELSE [panic |-> FALSE, headers |-> headers,
                            position |-> next_pos + Len(HTTP_NEWLINE)]

\* Faulty variant of chunk_loop: the first line without a colon is left in the body.
RECURSIVE chunk_loop_keeps_line(_, _, _)
chunk_loop_keeps_line(ch, at, headers) ==
    IF ~InRangeFrom(ch, at)
    THEN [panic |-> TRUE, headers |-> headers, position |-> at]
    ELSE LET found == slicey_find(SliceFrom(ch, at), HTTP_NEWLINE)
         IN  IF found = None
             THEN [panic |-> FALSE, headers |-> headers, position |-> at]
             ELSE LET next_pos == at + found[1]
                      kv == match_header(Slice(ch, at, next_pos))
                  IN  IF kv # None
                      THEN chunk_loop_keeps_line(ch, next_pos + Len(HTTP_NEWLINE),
                                                 insert(headers, kv[1][1], kv[1][2]))
                      ELSE [panic |-> FALSE, headers |-> headers, position |-> at]

(***************************************************************************)
(* read_multipart_chunk.  chunk_loop is its `while let` loop, from the     *)
(* loop head with the given `position` and `headers`; it ends with the     *)
(* position the body starts at.  panic: a slice was taken out of range.    *)
(***************************************************************************)
RECURSIVE chunk_loop(_, _, _)
chunk_loop(ch, at, headers) ==
    IF ~InRangeFrom(ch, at)
    THEN [panic |-> TRUE, headers |-> headers, position |-> at]
    ELSE LET found == slicey_find(SliceFrom(ch, at), HTTP_NEWLINE)
         IN  IF found = None
             THEN [panic |-> FALSE, headers |-> headers, position |-> at]
             ELSE LET next_pos == at + found[1]
                      kv == match_header(Slice(ch, at, next_pos))
                  IN  IF ~InRange(ch, at, next_pos)
                      THEN [panic |-> TRUE, headers |-> headers, position |-> at]
                      ELSE IF kv # None
                      THEN chunk_loop(ch, next_pos + Len(HTTP_NEWLINE),
                                      insert(headers, kv[1][1], kv[1][2]))
                      ELSE [panic |-> FALSE, headers |-> headers,
                            position |-> next_pos + Len(HTTP_NEWLINE)]

\* Faulty variant of read_multipart_chunk: a chunk without a header is an error.
read_multipart_chunk_needs_header(ch) ==
    LET r == chunk_loop(ch, 0, EmptyMap)
    IN  IF r.panic \/ ~InRangeFrom(ch, r.position)
        THEN [tag |-> "Panic"]
        ELSE IF r.headers = EmptyMap
        THEN [tag |-> "Err"]
        ELSE [tag |-> "Ok", headers |-> r.headers,
              body |-> SliceFrom(ch, r.position)]

read_multipart_chunk(ch) ==
    LET r == chunk_loop(ch, 0, EmptyMap)
    IN  IF r.panic \/ ~InRangeFrom(ch, r.position)
        THEN [tag |-> "Panic"]
        ELSE [tag |-> "Ok", headers |-> r.headers,
              body |-> SliceFrom(ch, r.position)]

(***************************************************************************)
(* url_decode.                                                             *)
(***************************************************************************)
\* Faulty variant of get: a range that ends past the slice is cut at its end.
get_clamped(bytes, start, end) ==
    IF start <= Len(bytes)
    THEN Some(Slice(bytes, start, IF end <= Len(bytes) THEN end ELSE Len(bytes)))
    ELSE None

\* <[u8]>::get(start..end): None when the range is not within the slice.
get(bytes, start, end) ==
    IF start <= end /\ end <= Len(bytes)
    THEN Some(Slice(bytes, start, end))
    ELSE None

\* <[u8]>::get_unchecked(idx): undefined when idx is not within the slice
\* (None here).
get_unchecked(bytes, idx) ==
    IF idx < Len(bytes) THEN Some(bytes[idx + 1]) ELSE None

\* char::to_digit(16)
to_digit(b) ==
    IF b >= 48 /\ b <= 57 THEN Some(b - 48)
    ELSE IF b >= 97 /\ b <= 102 THEN Some(b - 87)
    ELSE IF b >= 65 /\ b <= 70 THEN Some(b - 55)
    ELSE None

RECURSIVE radix_digits(_, _)
radix_digits(digits, acc) ==
    IF digits = << >> THEN Some(acc)
    ELSE IF to_digit(Head(digits)) = None THEN None
    ELSE LET v == acc * 16 + to_digit(Head(digits))[1]
         IN  IF v > 255 THEN None ELSE radix_digits(Tail(digits), v)

\* u8::from_str_radix(txt, 16): an optional `+` sign, then hexadecimal
\* digits; an empty string, a lone sign, a `-` or any other character is an
\* error (None).
from_str_radix(txt) ==
    IF txt = << >> \/ txt = <<43>> \/ txt = <<45>>
    THEN None
    ELSE radix_digits(IF Head(txt) = 43 THEN Tail(txt) ELSE txt, 0)

DecodeOk(s) == [tag |-> "Ok", value |-> s]
DecodeErr(msg) == [tag |-> "Err", details |-> msg]
DecodeErrAt(msg, idx) == [tag |-> "Err", details |-> msg, idx |-> idx]

\* The `while idx < bytes.len()` loop of url_decode, from its head, and the
\* String::from_utf8 that follows it.
RECURSIVE url_decode_from(_, _, _)
url_decode_from(bytes, idx, rbytes) ==
    IF ~(idx < Len(bytes))
    THEN IF Utf8Valid(rbytes)
         THEN DecodeOk(rbytes)
         ELSE DecodeErr("%-decoded query string not UTF-8")
    ELSE IF get_unchecked(bytes, idx) = None
    THEN [tag |-> "Undefined"]
    ELSE LET b == get_unchecked(bytes, idx)[1]
         IN  IF b = PLUS
             THEN url_decode_from(bytes, idx + 1, Append(rbytes, SPACE))
             ELSE IF b = PERCENT
             THEN LET substr == get(bytes, idx + 1, idx + 3)
                  IN  IF substr = None
                      THEN DecodeErr("Query string ended during escape sequence.")
                      ELSE IF ~Utf8Valid(substr[1])
                      THEN DecodeErrAt("Error %-decoding at index", idx)
                      ELSE IF from_str_radix(substr[1]) = None
                      THEN DecodeErrAt("Error %-decoding at index", idx)
                      ELSE url_decode_from(bytes, idx + 3,
                               Append(rbytes, from_str_radix(substr[1])[1]))
             ELSE url_decode_from(bytes, idx + 1, Append(rbytes, b))

url_decode(s) == url_decode_from(s, 0, << >>)

(***************************************************************************)
(* parse_query_string.                                                     *)
(***************************************************************************)
AMPERSAND == 38
EQUALS == 61

\* The offset of the first `sep` in s, as an Option.
find_byte(s, sep) ==
    LET at == {i \in 0..(Len(s) - 1) : s[i + 1] = sep}
    IN  IF at = {} THEN None ELSE Some(Min(at))

\* Faulty variant of split: the empty pieces are left out.
RECURSIVE split_skip_empty(_, _)
split_skip_empty(s, sep) ==
    LET at == find_byte(s, sep)
    IN  IF at = None THEN (IF s = << >> THEN << >> ELSE <<s>>)
        ELSE (IF at[1] = 0 THEN << >> ELSE <<Slice(s, 0, at[1])>>)
             \o split_skip_empty(SliceFrom(s, at[1] + 1), sep)

\* str::split(sep): the pieces between the separators, in order.
RECURSIVE split(_, _)
split(s, sep) ==
    LET at == find_byte(s, sep)
    IN  IF at = None THEN <<s>>
        ELSE <<Slice(s, 0, at[1])>> \o split(SliceFrom(s, at[1] + 1), sep)

\* Faulty variant of split_once: the split is at the last separator.
split_once_last(s, sep) ==
    LET at == {i \in 0..(Len(s) - 1) : s[i + 1] = sep}
    IN  IF at = {} THEN None
        ELSE LET m == CHOOSE i \in at : \A j \in at : j <= i
             IN  Some(<<Slice(s, 0, m), SliceFrom(s, m + 1)>>)

\* str::split_once(sep): what is before and after the first separator.
split_once(s, sep) ==
    LET at == find_byte(s, sep)
    IN  IF at = None THEN None
        ELSE Some(<<Slice(s, 0, at[1]), SliceFrom(s, at[1] + 1)>>)

QuerySome(m) == [tag |-> "Some", map |-> m]
QueryErr(msg, nvp) == [tag |-> "Err", code |-> 400, details |-> msg, chunk |-> nvp]

\* Faulty variant of parse_chunks: a chunk that is no name=value pair, or that
\* does not decode, is left out.
RECURSIVE parse_chunks_skip_bad(_, _, _)
parse_chunks_skip_bad(nvps, i, qmap) ==
    IF i > Len(nvps) THEN [tag |-> "Some", map |-> qmap]
    ELSE LET nvp == nvps[i]
             halves == split_once(nvp, EQUALS)
         IN  IF halves = None
             THEN parse_chunks_skip_bad(nvps, i + 1, qmap)
             ELSE LET name == url_decode(halves[1][1])
                      value == url_decode(halves[1][2])
                  IN  IF name.tag # "Ok" \/ value.tag # "Ok"
                      THEN parse_chunks_skip_bad(nvps, i + 1, qmap)
                      ELSE parse_chunks_skip_bad(nvps, i + 1,
                               insert(qmap, name.value, value.value))

\* The `for nvp in qstr.split('&')` loop, from its i-th chunk on.
RECURSIVE parse_chunks(_, _, _)
parse_chunks(nvps, i, qmap) ==
    IF i > Len(nvps) THEN QuerySome(qmap)
    ELSE LET nvp == nvps[i]
             halves == split_once(nvp, EQUALS)
         IN  IF halves = None
             THEN QueryErr("not a name=vlaue pair", nvp)
             ELSE LET name == url_decode(halves[1][1])
                      value == url_decode(halves[1][2])
                  IN  IF name.tag # "Ok"
                      THEN QueryErr("Error decoding name in chunk", nvp)
                      ELSE IF value.tag # "Ok"
                      THEN QueryErr("Error decoding value in chunk", nvp)
                      ELSE parse_chunks(nvps, i + 1,
                                        insert(qmap, name.value, value.value))

parse_query_string(s) == parse_chunks(split(s, AMPERSAND), 1, EmptyMap)

(***************************************************************************)
(* read_multipart_body, step by step.                                      *)
(***************************************************************************)
prepended_boundary(b) == <<45, 45>> \o b

BodyErr(code, details) == [tag |-> "Err", code |-> code, details |-> details]
BodyMultipart(parts) == [tag |-> "Multipart", parts |-> parts]
Unreturned == [tag |-> "Unreturned"]

\* Faulty variant of first_boundary: a body without the delimiter is an empty success.
first_boundary_missing_is_empty(bytes, boundary_bytes) ==
    LET found == slicey_find(bytes, boundary_bytes)
    IN  IF found = None
        THEN [tag |-> "Empty"]
        ELSE LET n == found[1]
                 end_idx == n + Len(boundary_bytes)
                 nl_end_idx == end_idx + Len(HTTP_NEWLINE)
             IN  IF Len(bytes) > nl_end_idx
                 THEN IF ~InRange(bytes, end_idx, nl_end_idx)
                      THEN [tag |-> "Panic"]
                      ELSE IF Slice(bytes, end_idx, nl_end_idx) = HTTP_NEWLINE
                      THEN [tag |-> "Position", position |-> nl_end_idx]
                      ELSE [tag |-> "Empty"]
                 ELSE [tag |-> "Empty"]

\* Faulty variant of first_boundary: a first delimiter that no newline follows is an
\* error.
first_boundary_strict(bytes, boundary_bytes) ==
    LET found == slicey_find(bytes, boundary_bytes)
    IN  IF found = None
        THEN [tag |-> "Err"]
        ELSE LET n == found[1]
                 end_idx == n + Len(boundary_bytes)
                 nl_end_idx == end_idx + Len(HTTP_NEWLINE)
             IN  IF Len(bytes) > nl_end_idx
                 THEN IF ~InRange(bytes, end_idx, nl_end_idx)
                      THEN [tag |-> "Panic"]
                      ELSE IF Slice(bytes, end_idx, nl_end_idx) = HTTP_NEWLINE
                      THEN [tag |-> "Position", position |-> nl_end_idx]
                      ELSE [tag |-> "Err"]
                 ELSE [tag |-> "Err"]

\* The initial `position`: the match on slicey_find(body_bytes, boundary_bytes).
first_boundary(bytes, boundary_bytes) ==
    LET found == slicey_find(bytes, boundary_bytes)
    IN  IF found = None
        THEN [tag |-> "Err"]
        ELSE LET n == found[1]
                 end_idx == n + Len(boundary_bytes)
                 nl_end_idx == end_idx + Len(HTTP_NEWLINE)
             IN  IF Len(bytes) > nl_end_idx
                 THEN IF ~InRange(bytes, end_idx, nl_end_idx)
                      THEN [tag |-> "Panic"]
                      ELSE IF Slice(bytes, end_idx, nl_end_idx) = HTTP_NEWLINE
                      THEN [tag |-> "Position", position |-> nl_end_idx]
                      ELSE [tag |-> "Empty"]
                 ELSE [tag |-> "Empty"]

\* One iteration of the `while let` loop of find_next_multipart_chunk_end, from
\* the loop head with the locals `pos` and `subslice` (the offset it starts at).
scan_iter(bytes, at, sub, boundary_bytes) ==
    IF ~InRangeFrom(bytes, sub)
    THEN [tag |-> "Panic"]
    ELSE LET found == slicey_find(SliceFrom(bytes, sub), HTTP_NEWLINE)
         IN  IF found = None
             THEN [tag |-> "Return", value |-> None]
             ELSE LET n == found[1]
                      post_newline_idx == at + n + Len(HTTP_NEWLINE)
                  IN  IF Len(bytes) > post_newline_idx
                      THEN IF starts_with(SliceFrom(bytes, post_newline_idx),
                                          boundary_bytes)
                           THEN [tag |-> "Return", value |-> Some(at + n)]
                           ELSE [tag |-> "Loop", pos |-> post_newline_idx,
                                 subslice |-> post_newline_idx]
                      ELSE [tag |-> "Loop", pos |-> at, subslice |-> sub]

\* Faulty variant of push_chunk: the bytes after the delimiter are compared with the
\* newline without the check that the buffer holds them.
push_chunk_unchecked(bytes, at, chunk_end, boundary_bytes) ==
    IF ~InRange(bytes, at, chunk_end)
    THEN [tag |-> "Panic"]
    ELSE LET span  == [start |-> at, end |-> chunk_end]
             after == chunk_end + Len(HTTP_NEWLINE) + Len(boundary_bytes)
             post_newline_pos == after + Len(HTTP_NEWLINE)
         IN  IF ~InRange(bytes, after, post_newline_pos)
             THEN [tag |-> "Panic"]
             ELSE IF Slice(bytes, after, post_newline_pos) = HTTP_NEWLINE
             THEN [tag |-> "Continue", chunk |-> span,
                   position |-> post_newline_pos]
             ELSE [tag |-> "Break", chunk |-> span, position |-> after]

\* Faulty variant of push_chunk: the scan goes on whatever follows the delimiter.
push_chunk_goes_on(bytes, at, chunk_end, boundary_bytes) ==
    IF ~InRange(bytes, at, chunk_end)
    THEN [tag |-> "Panic"]
    ELSE LET span  == [start |-> at, end |-> chunk_end]
             after == chunk_end + Len(HTTP_NEWLINE) + Len(boundary_bytes)
             post_newline_pos == after + Len(HTTP_NEWLINE)
         IN  IF Len(bytes) >= post_newline_pos
             THEN [tag |-> "Continue", chunk |-> span, position |-> post_newline_pos]
             ELSE [tag |-> "Break", chunk |-> span, position |-> after]

\* The body of the chunking loop of read_multipart_body, given the chunk end
\* that find_next_multipart_chunk_end returned.
push_chunk(bytes, at, chunk_end, boundary_bytes) ==
    IF ~InRange(bytes, at, chunk_end)
    THEN [tag |-> "Panic"]
    ELSE LET span  == [start |-> at, end |-> chunk_end]
             after == chunk_end + Len(HTTP_NEWLINE) + Len(boundary_bytes)
             post_newline_pos == after + Len(HTTP_NEWLINE)
         IN  IF Len(bytes) >= post_newline_pos
             THEN IF ~InRange(bytes, after, post_newline_pos)
                  THEN [tag |-> "Panic"]
                  ELSE IF Slice(bytes, after, post_newline_pos) = HTTP_NEWLINE
                  THEN [tag |-> "Continue", chunk |-> span,
                        position |-> post_newline_pos]
                  ELSE [tag |-> "Break", chunk |-> span, position |-> after]
             ELSE [tag |-> "Break", chunk |-> span, position |-> after]

ChunkBytes(bytes, c) == Slice(bytes, c.start, c.end)

\* The `for chunk in chunks.iter()` loop: the parts of the chunks that parse.
read_chunks(bytes, cs) ==
    [i \in 1..Len(cs) |-> read_multipart_chunk(ChunkBytes(bytes, cs[i]))]

IsOkPart(r) == r.tag = "Ok"
PartOf(r) == [headers |-> r.headers, body |-> r.body]

collect_parts(results) ==
    LET kept == SelectSeq(results, IsOkPart)
    IN  [i \in 1..Len(kept) |-> PartOf(kept[i])]

FindFirstBoundary ==
    /\ pc = "start"
    /\ LET r == first_boundary(body_bytes, prepended_boundary(boundary))
       IN  CASE r.tag = "Err" ->
                    /\ body' = BodyErr(400, "multipart body missing boundary string")
                    /\ pc' = "done"
                    /\ UNCHANGED position
             [] r.tag = "Empty" ->
                    /\ body' = BodyMultipart(<< >>)
                    /\ pc' = "done"
                    /\ UNCHANGED position
             [] r.tag = "Position" ->
                    /\ position' = r.position
                    /\ pc' = "find"
                    /\ UNCHANGED body
             [] r.tag = "Panic" ->
                    /\ pc' = "panic"
                    /\ UNCHANGED <<position, body>>
    /\ UNCHANGED <<body_bytes, boundary, shape, pos, subslice, next_position, chunks>>
    /\ UNCHANGED <<chunkVars, queryVars, requestVars, responseVars>>

\* The call find_next_multipart_chunk_end(body_bytes, position, boundary_bytes):
\* `pos = current_position` and `subslice = &bytes[pos..]`.
EnterScan ==
    /\ pc = "find"
    /\ IF InRangeFrom(body_bytes, position)
       THEN /\ pos' = position
            /\ subslice' = position
            /\ pc' = "scan"
       ELSE /\ pc' = "panic"
            /\ UNCHANGED <<pos, subslice>>
    /\ UNCHANGED <<body_bytes, boundary, shape, position, next_position, chunks, body>>
    /\ UNCHANGED <<chunkVars, queryVars, requestVars, responseVars>>

ScanStep ==
    /\ pc = "scan"
    /\ LET r == scan_iter(body_bytes, pos, subslice, prepended_boundary(boundary))
       IN  CASE r.tag = "Return" /\ r.value = None ->
                    /\ next_position' = None
                    /\ pc' = "parts"
                    /\ UNCHANGED <<pos, subslice>>
             [] r.tag = "Return" /\ r.value # None ->
                    /\ next_position' = r.value
                    /\ pc' = "push"
                    /\ UNCHANGED <<pos, subslice>>
             [] r.tag = "Loop" ->
                    /\ pos' = r.pos
                    /\ subslice' = r.subslice
                    /\ UNCHANGED <<pc, next_position>>
             [] r.tag = "Panic" ->
                    /\ pc' = "panic"
                    /\ UNCHANGED <<pos, subslice, next_position>>
    /\ UNCHANGED <<body_bytes, boundary, shape, position, chunks, body>>
    /\ UNCHANGED <<chunkVars, queryVars, requestVars, responseVars>>

PushChunk ==
    /\ pc = "push"
    /\ LET r == push_chunk(body_bytes, position, next_position[1],
                           prepended_boundary(boundary))
       IN  CASE r.tag = "Continue" ->
                    /\ chunks' = Append(chunks, r.chunk)
                    /\ position' = r.position
                    /\ pc' = "find"
             [] r.tag = "Break" ->
                    /\ chunks' = Append(chunks, r.chunk)
                    /\ position' = r.position
                    /\ pc' = "parts"
             [] r.tag = "Panic" ->
                    /\ pc' = "panic"
                    /\ UNCHANGED <<chunks, position>>
    /\ UNCHANGED <<body_bytes, boundary, shape, pos, subslice, next_position, body>>
    /\ UNCHANGED <<chunkVars, queryVars, requestVars, responseVars>>

ReadParts ==
    /\ pc = "parts"
    /\ LET results == read_chunks(body_bytes, chunks)
       IN  IF \E i \in 1..Len(results) : results[i].tag = "Panic"
           THEN /\ pc' = "panic"
                /\ UNCHANGED body
           ELSE /\ body' = BodyMultipart(collect_parts(results))
                /\ pc' = "done"
    /\ UNCHANGED <<body_bytes, boundary, shape, position, pos, subslice,
                   next_position, chunks>>
    /\ UNCHANGED <<chunkVars, queryVars, requestVars, responseVars>>

(***************************************************************************)
(* Inputs of read_multipart_body.                                          *)
(*                                                                         *)
(* Any body: up to MaxPieces pieces, each a newline, the delimiter, two    *)
(* hyphens, a letter, a lone carriage return or a colon.                   *)
(*                                                                         *)
(* Framed body: the delimiter and a newline, then 1..MaxParts parts, each  *)
(* a block of header lines, a blank line and a payload, the parts          *)
(* separated by newline + delimiter + newline, and closed by               *)
(* newline + delimiter + "--".  A header line is given with the name and   *)
(* the value it is expected to parse to.                                   *)
(***************************************************************************)
Boundaries == {<<88>>}

PieceNames == {"NL", "DELIM", "HH", "a", "CR", "COLON"}

PieceBytes(p, b) ==
    CASE p = "NL" -> HTTP_NEWLINE
      [] p = "DELIM" -> prepended_boundary(b)
      [] p = "HH" -> <<45, 45>>
      [] p = "a" -> <<97>>
      [] p = "CR" -> <<13>>
      [] p = "COLON" -> <<COLON>>

RECURSIVE Concat(_, _)
Concat(ps, b) ==
    IF ps = << >> THEN << >> ELSE PieceBytes(Head(ps), b) \o Concat(Tail(ps), b)

PieceSeqs == UNION {[1..n -> PieceNames] : n \in 0..MaxPieces}

\* " A: b "
HL1 == [line |-> <<32, 65, 58, 32, 98, 32>>, name |-> <<97>>, value |-> <<98, 32>>]
\* "a:c"
HL2 == [line |-> <<97, 58, 99>>, name |-> <<97>>, value |-> <<99>>]
\* "--X:d", a header line that begins with the delimiter of boundary X
HL3 == [line |-> <<45, 45, 88, 58, 100>>, name |-> <<45, 45, 120>>, value |-> <<100>>]

HeaderBlocks == {<< >>, <<HL1>>, <<HL1, HL2>>, <<HL3>>}

\* "", "p", "p\r\n:q", and "--Xy", a payload that begins with the delimiter
Payloads == {<< >>, <<112>>, <<112, 13, 10, 58, 113>>, <<45, 45, 88, 121>>}

Parts == [headers : HeaderBlocks, payload : Payloads]

Shapes == UNION {[1..n -> Parts] : n \in 1..MaxParts}

RECURSIVE HeaderBlockBytes(_)
HeaderBlockBytes(hs) ==
    IF hs = << >> THEN << >>
    ELSE Head(hs).line \o HTTP_NEWLINE \o HeaderBlockBytes(Tail(hs))

PartBytes(p) == HeaderBlockBytes(p.headers) \o HTTP_NEWLINE \o p.payload

RECURSIVE FrameFrom(_, _, _)
FrameFrom(sh, i, b) ==
    IF i = Len(sh)
    THEN PartBytes(sh[i]) \o HTTP_NEWLINE \o prepended_boundary(b) \o <<45, 45>>
    ELSE PartBytes(sh[i]) \o HTTP_NEWLINE \o prepended_boundary(b) \o HTTP_NEWLINE
         \o FrameFrom(sh, i + 1, b)

Frame(sh, b) == prepended_boundary(b) \o HTTP_NEWLINE \o FrameFrom(sh, 1, b)

IdleResponse ==
    /\ resp = [kind |-> "Idle"]
    /\ added = << >>
    /\ out = [tag |-> "Idle"]
    /\ body_log = [tag |-> "Idle"]

IdleRequest ==
    /\ env = << >>
    /\ rshape = << >>
    /\ stdin = << >>
    /\ stdin_fails = FALSE
    /\ stdin_pos = 0
    /\ env_idx = 0
    /\ vars_map = EmptyMap
    /\ headers_map = EmptyMap
    /\ body_len = << >>
    /\ rpc = "idle"
    /\ ret = [tag |-> "Idle"]

IdleChunk ==
    /\ chunk = << >>
    /\ part = [tag |-> "Idle"]

IdleQuery ==
    /\ qstr = << >>
    /\ qshape = << >>
    /\ decoded = [tag |-> "Idle"]
    /\ query = [tag |-> "Idle"]

InitMultipart ==
    /\ boundary \in Boundaries
    /\ \/ /\ shape = << >>
          /\ \E ps \in PieceSeqs : body_bytes = Concat(ps, boundary)
       \/ /\ shape \in Shapes
          /\ body_bytes = Frame(shape, boundary)
    /\ pc = "start"
    /\ position = 0
    /\ pos = 0
    /\ subslice = 0
    /\ next_position = None
    /\ chunks = << >>
    /\ body = Unreturned
    /\ IdleChunk
    /\ IdleQuery
    /\ IdleRequest
    /\ IdleResponse

NextMultipart ==
    \/ FindFirstBoundary
    \/ EnterScan
    \/ ScanStep
    \/ PushChunk
    \/ ReadParts

SpecMultipart == InitMultipart /\ [][NextMultipart]_vars

(***************************************************************************)
(* read_multipart_chunk on its own: any chunk of up to MaxChunkPieces      *)
(* pieces, each a newline, a colon, a space, or a letter of either case.   *)
(***************************************************************************)
IdleMultipart ==
    /\ body_bytes = << >>
    /\ boundary = << >>
    /\ shape = << >>
    /\ pc = "idle"
    /\ position = 0
    /\ pos = 0
    /\ subslice = 0
    /\ next_position = None
    /\ chunks = << >>
    /\ body = [tag |-> "Idle"]

ChunkPieces == {HTTP_NEWLINE, <<COLON>>, <<SPACE>>, <<97>>, <<65>>}

RECURSIVE Flatten(_)
Flatten(ss) == IF ss = << >> THEN << >> ELSE Head(ss) \o Flatten(Tail(ss))

ChunkInputs == {Flatten(ps) : ps \in UNION {[1..n -> ChunkPieces] : n \in 0..MaxChunkPieces}}

InitChunk ==
    /\ chunk \in ChunkInputs
    /\ part = Unreturned
    /\ IdleMultipart
    /\ IdleQuery
    /\ IdleRequest
    /\ IdleResponse

ReadMultipartChunk ==
    /\ part = Unreturned
    /\ part' = read_multipart_chunk(chunk)
    /\ UNCHANGED <<chunk, multipartVars, queryVars, requestVars, responseVars>>

NextChunk == ReadMultipartChunk

SpecChunk == InitChunk /\ [][NextChunk]_vars

(***************************************************************************)
(* url_decode on its own.  The string is written as up to MaxTokens        *)
(* tokens, each given with the bytes it is expected to decode to: a        *)
(* letter, `+`, an escape `%XX`, a two-byte character, or a lone `%` that  *)
(* begins no complete escape of its own (with the letters after it, it     *)
(* may).  Sample is "a+z%20a".                                             *)
(***************************************************************************)
T_a == [text |-> <<97>>, bytes |-> <<97>>, kind |-> "lit"]
T_z == [text |-> <<122>>, bytes |-> <<122>>, kind |-> "lit"]
T_plus == [text |-> <<43>>, bytes |-> <<32>>, kind |-> "plus"]
T_20 == [text |-> <<37, 50, 48>>, bytes |-> <<32>>, kind |-> "esc"]
T_2B == [text |-> <<37, 50, 66>>, bytes |-> <<43>>, kind |-> "esc"]
T_25 == [text |-> <<37, 50, 53>>, bytes |-> <<37>>, kind |-> "esc"]
T_c3 == [text |-> <<37, 99, 51>>, bytes |-> <<195>>, kind |-> "esc"]
T_a9 == [text |-> <<37, 97, 57>>, bytes |-> <<169>>, kind |-> "esc"]
T_e9 == [text |-> <<195, 169>>, bytes |-> <<195, 169>>, kind |-> "lit"]
T_pct == [text |-> <<37>>, bytes |-> << >>, kind |-> "bad"]

Tokens == {T_a, T_z, T_plus, T_20, T_2B, T_25, T_c3, T_a9, T_e9, T_pct}

Sample == <<T_a, T_plus, T_z, T_20, T_a>>

TokenSeqs == UNION {[1..n -> Tokens] : n \in 0..MaxTokens} \cup {Sample}

RECURSIVE TextOf(_)
TextOf(ts) == IF ts = << >> THEN << >> ELSE Head(ts).text \o TextOf(Tail(ts))

RECURSIVE BytesOf(_)
BytesOf(ts) == IF ts = << >> THEN << >> ELSE Head(ts).bytes \o BytesOf(Tail(ts))

InitDecode ==
    /\ qshape \in TokenSeqs
    /\ qstr = TextOf(qshape)
    /\ decoded = Unreturned
    /\ query = [tag |-> "Idle"]
    /\ IdleMultipart
    /\ IdleChunk
    /\ IdleRequest
    /\ IdleResponse

UrlDecode ==
    /\ decoded = Unreturned
    /\ decoded' = url_decode(qstr)
    /\ UNCHANGED <<qstr, qshape, query, multipartVars, chunkVars, requestVars, responseVars>>

NextDecode == UrlDecode

SpecDecode == InitDecode /\ [][NextDecode]_vars

(***************************************************************************)
(* parse_query_string on its own.  The query string is 1..MaxPairs chunks  *)
(* joined by `&`; a chunk that is well formed is given with the name and   *)
(* the value it is expected to give.                                       *)
(***************************************************************************)
\* "a=1", "b=2", "a=3"
Q_a1 == [text |-> <<97, 61, 49>>, ok |-> TRUE, name |-> <<97>>, value |-> <<49>>]
Q_b2 == [text |-> <<98, 61, 50>>, ok |-> TRUE, name |-> <<98>>, value |-> <<50>>]
Q_a3 == [text |-> <<97, 61, 51>>, ok |-> TRUE, name |-> <<97>>, value |-> <<51>>]
\* "%61=4": the name decodes to "a"
Q_e4 == [text |-> <<37, 54, 49, 61, 52>>, ok |-> TRUE, name |-> <<97>>, value |-> <<52>>]
\* "a=b=c", "a=", "=v"
Q_abc == [text |-> <<97, 61, 98, 61, 99>>, ok |-> TRUE, name |-> <<97>>,
          value |-> <<98, 61, 99>>]
Q_a == [text |-> <<97, 61>>, ok |-> TRUE, name |-> <<97>>, value |-> << >>]
Q_v == [text |-> <<61, 118>>, ok |-> TRUE, name |-> << >>, value |-> <<118>>]
\* "a+b=c%20d"
Q_sp == [text |-> <<97, 43, 98, 61, 99, 37, 50, 48, 100>>, ok |-> TRUE,
         name |-> <<97, 32, 98>>, value |-> <<99, 32, 100>>]
\* "bogus", "", "a=%zz", "%2=1"
Q_bogus == [text |-> <<98, 111, 103, 117, 115>>, ok |-> FALSE]
Q_empty == [text |-> << >>, ok |-> FALSE]
Q_zz == [text |-> <<97, 61, 37, 122, 122>>, ok |-> FALSE]
Q_cut == [text |-> <<37, 50, 61, 49>>, ok |-> FALSE]

QueryChunks == {Q_a1, Q_b2, Q_a3, Q_e4, Q_abc, Q_a, Q_v, Q_sp,
                Q_bogus, Q_empty, Q_zz, Q_cut}

QueryShapes == UNION {[1..n -> QueryChunks] : n \in 1..MaxPairs}

RECURSIVE JoinFrom(_, _)
JoinFrom(cs, i) ==
    IF i = Len(cs) THEN cs[i].text
    ELSE cs[i].text \o <<AMPERSAND>> \o JoinFrom(cs, i + 1)

InitQuery ==
    /\ qshape \in QueryShapes
    /\ qstr = JoinFrom(qshape, 1)
    /\ query = Unreturned
    /\ decoded = [tag |-> "Idle"]
    /\ IdleMultipart
    /\ IdleChunk
    /\ IdleRequest
    /\ IdleResponse

ParseQueryString ==
    /\ query = Unreturned
    /\ query' = parse_query_string(qstr)
    /\ UNCHANGED <<qstr, qshape, decoded, multipartVars, chunkVars, requestVars, responseVars>>

NextQuery == ParseQueryString

SpecQuery == InitQuery /\ [][NextQuery]_vars

(***************************************************************************)
(* What the claims are stated with.                                        *)
(***************************************************************************)
\* The offsets at which `needle` occurs in `haystack`.
Occurrences(haystack, needle) ==
    {i \in 0..(Len(haystack) - Len(needle)) :
        \A k \in 1..Len(needle) : haystack[i + k] = needle[k]}

Delimiter == prepended_boundary(boundary)

RECURSIVE ExpectedHeaders(_, _)
ExpectedHeaders(hs, m) ==
    IF hs = << >> THEN m
    ELSE ExpectedHeaders(Tail(hs), [x \in DOMAIN m \cup {Head(hs).name} |->
                                       IF x = Head(hs).name THEN Head(hs).value
                                       ELSE m[x]])

ExpectedParts(sh) ==
    [i \in 1..Len(sh) |-> [headers |-> ExpectedHeaders(sh[i].headers, EmptyMap),
                           body |-> sh[i].payload]]

\* The scan loop at its head leaves the loop or moves its subslice forward.
ScanAdvances ==
    LET r == scan_iter(body_bytes, pos, subslice, Delimiter)
    IN  r.tag = "Loop" => r.subslice > subslice

Framed == shape # << >>

\* newline + delimiter occurs only where the framing puts it: once after
\* each part.
SeparatorsOnly ==
    Cardinality(Occurrences(body_bytes, HTTP_NEWLINE \o Delimiter)) = Len(shape)

(* C1, as stated: a framed body of N parts parses, without a panic and     *)
(* without the scan standing still, to Body::Multipart with the N parts in *)
(* order, each with the headers its header lines give (name trimmed and    *)
(* lower-cased, value with leading white space stripped) and with its      *)
(* payload as body.                                                        *)
C1_Framed_Original ==
    Framed =>
        /\ pc # "panic"
        /\ pc = "scan" => ScanAdvances
        /\ pc = "done" => body = BodyMultipart(ExpectedParts(shape))

(* C1, amended: the same for a framed body in which newline + delimiter    *)
(* occurs only at the N places the framing puts it (no header line and no  *)
(* payload begins with the delimiter); a repeated header name keeps the    *)
(* value of its last line.                                                 *)
C1_Framed ==
    (Framed /\ SeparatorsOnly) =>
        /\ pc # "panic"
        /\ pc = "scan" => ScanAdvances
        /\ pc = "done" => body = BodyMultipart(ExpectedParts(shape))

C1_Witness ==
    /\ Len(shape) = 2
    /\ SeparatorsOnly
    /\ shape[1].headers = <<HL1, HL2>>
    /\ shape[2].payload = <<112, 13, 10, 58, 113>>
    /\ pc = "done"
    /\ body.tag = "Multipart"
    /\ Len(body.parts) = 2

(* C2: the scan of find_next_multipart_chunk_end terminates: each          *)
(* iteration of its loop leaves the loop or moves the subslice forward,    *)
(* also when the buffer ends with a newline that no delimiter follows.     *)
C2_ScanTerminates == pc = "scan" => ScanAdvances

FirstDelimiter == Min(Occurrences(body_bytes, Delimiter))

\* The first delimiter of the body is followed by a newline.
NewlineAfterFirstDelimiter ==
    LET e == FirstDelimiter + Len(Delimiter)
    IN  /\ e + 2 <= Len(body_bytes)
        /\ body_bytes[e + 1] = 13
        /\ body_bytes[e + 2] = 10

(* C3: a body in which the delimiter does not occur, the empty body        *)
(* included, gives Body::Err with code 400 and the detail "multipart body  *)
(* missing boundary string": no panic and no Body::Multipart.              *)
C3_MissingBoundaryIsErr ==
    (Occurrences(body_bytes, Delimiter) = {} /\ pc # "start") =>
        /\ pc = "done"
        /\ body = BodyErr(400, "multipart body missing boundary string")

C3_Witness ==
    /\ body_bytes # << >>
    /\ Occurrences(body_bytes, Delimiter) = {}
    /\ pc = "done"
    /\ body.tag = "Err"

(* C4: when the first delimiter of the body is not followed by a newline,  *)
(* or the buffer ends before one fits, the result is Body::Multipart with  *)
(* no parts, whatever follows.                                             *)
C4_NoNewlineIsEmpty ==
    (/\ Occurrences(body_bytes, Delimiter) # {}
     /\ ~NewlineAfterFirstDelimiter
     /\ pc # "start") =>
        /\ pc = "done"
        /\ body = BodyMultipart(<< >>)

C4_Witness ==
    /\ Occurrences(body_bytes, Delimiter) # {}
    /\ FirstDelimiter > 0
    /\ Len(body_bytes) > FirstDelimiter + Len(Delimiter) + 2
    /\ ~NewlineAfterFirstDelimiter
    /\ pc = "done"
    /\ body = BodyMultipart(<< >>)

(* C6: no slice of the multipart parse is out of range: there is no panic, *)
(* the positions stay within the buffer, and each chunk is a span          *)
(* start <= end <= length of the body.                                     *)
C6_SlicesInRange ==
    /\ pc # "panic"
    /\ position <= Len(body_bytes)
    /\ pos <= Len(body_bytes)
    /\ subslice <= Len(body_bytes)
    /\ pc = "push" => (position <= next_position[1]
                       /\ next_position[1] <= Len(body_bytes))
    /\ \A i \in 1..Len(chunks) :
          chunks[i].start <= chunks[i].end /\ chunks[i].end <= Len(body_bytes)

\* A body that ends with the delimiter that closes its first chunk.
C6_Witness ==
    /\ pc = "done"
    /\ Len(chunks) = 1
    /\ position = Len(body_bytes)
    /\ body.tag = "Multipart"
    /\ Len(body.parts) = 1

\* The chunk begins with a header line: a line that a newline ends and that
\* holds a colon.
LeadingHeaderLine ==
    /\ Occurrences(chunk, HTTP_NEWLINE) # {}
    /\ \E i \in 1..Min(Occurrences(chunk, HTTP_NEWLINE)) : chunk[i] = COLON

(* C5, as stated: a chunk with no header lines, the payload coming first,  *)
(* parses to a part with no headers whose body is the whole chunk.         *)
C5_NoHeaders_Original ==
    (part # Unreturned /\ ~LeadingHeaderLine) =>
        part = [tag |-> "Ok", headers |-> EmptyMap, body |-> chunk]

(* C5, amended: a chunk with no header lines and no newline in it parses   *)
(* to a part with no headers whose body is the whole chunk.                *)
C5_NoHeaders ==
    (part # Unreturned /\ Occurrences(chunk, HTTP_NEWLINE) = {}) =>
        part = [tag |-> "Ok", headers |-> EmptyMap, body |-> chunk]

\* The chunk "a:a": a colon, and no newline.
C5_Witness ==
    /\ chunk = <<97, 58, 97>>
    /\ part = [tag |-> "Ok", headers |-> EmptyMap, body |-> chunk]

AllTokens(kinds) == \A i \in 1..Len(qshape) : qshape[i].kind \in kinds

(* C7: a string in which every `%` begins an escape of two hexadecimal     *)
(* digits, and whose decoded bytes are valid UTF-8, decodes to Ok of those *)
(* bytes: a space for each `+`, the byte XX for each `%XX`, every other    *)
(* byte as it is, in order.                                                *)
C7_DecodesWellFormed ==
    (/\ decoded # Unreturned
     /\ AllTokens({"lit", "plus", "esc"})
     /\ Utf8Valid(BytesOf(qshape))) =>
        decoded = DecodeOk(BytesOf(qshape))

\* "a+z%20a" decodes to "a z a".
C7_Witness ==
    /\ qstr = <<97, 43, 122, 37, 50, 48, 97>>
    /\ decoded = DecodeOk(<<97, 32, 122, 32, 97>>)

IsHexDigit(b) ==
    \/ b >= 48 /\ b <= 57
    \/ b >= 65 /\ b <= 70
    \/ b >= 97 /\ b <= 102

(* C8: a string in which some `%` is followed by two bytes that are not    *)
(* both hexadecimal digits does not decode: url_decode returns an error.   *)
C8_BadHexIsErr ==
    (/\ decoded # Unreturned
     /\ \E i \in 1..Len(qstr) :
           /\ qstr[i] = PERCENT
           /\ i + 2 <= Len(qstr)
           /\ ~(IsHexDigit(qstr[i + 1]) /\ IsHexDigit(qstr[i + 2]))) =>
        decoded.tag = "Err"

(* C9: a string in which some `%` has fewer than two bytes after it makes  *)
(* url_decode return an error: no panic, no read outside the string.       *)
C9_CutEscapeIsErr ==
    (/\ decoded # Unreturned
     /\ \E i \in 1..Len(qstr) : qstr[i] = PERCENT /\ i + 2 > Len(qstr)) =>
        decoded.tag = "Err"

\* "z%a": the string ends one byte into the escape.
C9_Witness ==
    /\ qstr = <<122, 37, 97>>
    /\ decoded = DecodeErr("Query string ended during escape sequence.")

AllOkChunks == \A i \in 1..Len(qshape) : qshape[i].ok

\* The name of each chunk mapped to the value of the last chunk with that
\* name.
LastWins ==
    [n \in {qshape[i].name : i \in 1..Len(qshape)} |->
        LET last == CHOOSE i \in 1..Len(qshape) :
                        /\ qshape[i].name = n
                        /\ \A j \in 1..Len(qshape) : qshape[j].name = n => j <= i
        IN  qshape[last].value]

(* C10: when parse_query_string succeeds, its map holds exactly the        *)
(* decoded names of the chunks, each mapped to the decoded value of the    *)
(* last chunk with that name.                                              *)
C10_LastWriteWins ==
    query.tag = "Some" => (AllOkChunks /\ query.map = LastWins)

\* "a=1&b=2&a=3" gives a -> 3, b -> 2.
C10_Witness ==
    /\ qstr = <<97, 61, 49, 38, 98, 61, 50, 38, 97, 61, 51>>
    /\ query.tag = "Some"
    /\ DOMAIN query.map = {<<97>>, <<98>>}
    /\ query.map[<<97>>] = <<51>>
    /\ query.map[<<98>>] = <<50>>

\* The first chunk of the query string that is not a well-formed pair.
FirstBadChunk ==
    qshape[Min({i \in 1..Len(qshape) : ~qshape[i].ok})]

(* C11: when some chunk of the query string has no `=`, or has a name or a *)
(* value that does not percent-decode, parse_query_string returns          *)
(* Query::Err (code 400, naming the first such chunk) and never            *)
(* Query::Some, whatever chunks come before or after it.                   *)
C11_BadChunkIsErr ==
    (query # Unreturned /\ ~AllOkChunks) =>
        /\ query.tag = "Err"
        /\ query.code = 400
        /\ query.chunk = FirstBadChunk.text

\* "a=1&bogus&b=2": a chunk without `=` between two well-formed chunks.
C11_Witness ==
    /\ qshape = <<Q_a1, Q_bogus, Q_b2>>
    /\ query.tag = "Err"
    /\ query.chunk = <<98, 111, 103, 117, 115>>

(***************************************************************************)
(* Request::new.                                                           *)
(***************************************************************************)
HTTP_PREFIX == <<72, 84, 84, 80, 95>>
MULTIPART_CONTENT_TYPE ==
    <<109, 117, 108, 116, 105, 112, 97, 114, 116, 47, 102, 111, 114, 109, 45,
      100, 97, 116, 97>>
MULTIPART_BOUNDARY == <<98, 111, 117, 110, 100, 97, 114, 121, 61>>
\* "QUERY_STRING", "content-length", "content-type"
QUERY_STRING == <<81, 85, 69, 82, 89, 95, 83, 84, 82, 73, 78, 71>>
CONTENT_LENGTH == <<99, 111, 110, 116, 101, 110, 116, 45, 108, 101, 110, 103, 116, 104>>
CONTENT_TYPE == <<99, 111, 110, 116, 101, 110, 116, 45, 116, 121, 112, 101>>

\* Faulty variant of strip_prefix: the prefix is matched in any case.
strip_prefix_any_case(s, prefix) ==
    IF starts_with(to_lowercase(s), to_lowercase(prefix))
    THEN Some(SliceFrom(s, Len(prefix)))
    ELSE None

\* str::strip_prefix
strip_prefix(s, prefix) ==
    IF starts_with(s, prefix) THEN Some(SliceFrom(s, Len(prefix))) ELSE None

\* str::replace('_', "-")
replace(s) == [i \in 1..Len(s) |-> IF s[i] = 95 THEN 45 ELSE s[i]]

\* str::to_uppercase, on ASCII
to_uppercase(s) ==
    [i \in 1..Len(s) |-> IF s[i] >= 97 /\ s[i] <= 122 THEN s[i] - 32 ELSE s[i]]

\* HashMap::get
map_get(m, k) == IF k \in DOMAIN m THEN Some(m[k]) ELSE None

\* str::find with a non-empty pattern: the offset of its first occurrence.
find(s, pat) ==
    LET hits == {n \in 0..(Len(s) - Len(pat)) : Slice(s, n, n + Len(pat)) = pat}
    IN  IF hits = {} THEN None ELSE Some(Min(hits))

(***************************************************************************)
(* str::parse::<usize>, on a 64-bit target.  A usize is kept as its        *)
(* decimal digits without leading zeros (zero is the empty sequence), so   *)
(* that values up to usize::MAX are told apart.                            *)
(***************************************************************************)
\* 18446744073709551615
USIZE_MAX == <<1, 8, 4, 4, 6, 7, 4, 4, 0, 7, 3, 7, 0, 9, 5, 5, 1, 6, 1, 5>>
\* 9223372036854775807
ISIZE_MAX == <<9, 2, 2, 3, 3, 7, 2, 0, 3, 6, 8, 5, 4, 7, 7, 5, 8, 0, 7>>

IsDigit(b) == b >= 48 /\ b <= 57

RECURSIVE strip_zeros(_)
strip_zeros(ds) ==
    IF ds # << >> /\ Head(ds) = 0 THEN strip_zeros(Tail(ds)) ELSE ds

\* a <= b, for digit sequences without leading zeros
RECURSIVE LexLE(_, _)
LexLE(a, b) ==
    IF a = << >> THEN TRUE
    ELSE IF Head(a) # Head(b) THEN Head(a) < Head(b)
    ELSE LexLE(Tail(a), Tail(b))

DigitsLE(a, b) == Len(a) < Len(b) \/ (Len(a) = Len(b) /\ LexLE(a, b))

RECURSIVE ToNat(_, _)
ToNat(ds, acc) ==
    IF ds = << >> THEN acc ELSE ToNat(Tail(ds), acc * 10 + Head(ds))

\* a usize that is more than n, a small number
ExceedsNat(ds, n) == IF Len(ds) > 9 THEN TRUE ELSE ToNat(ds, 0) > n

\* Faulty variant of parse_usize: what is not a number parses as zero.
parse_usize_lenient(s) ==
    LET digits == IF s # << >> /\ Head(s) = 43 THEN Tail(s) ELSE s
    IN  IF s = << >> \/ digits = << >> \/ \E i \in 1..Len(digits) : ~IsDigit(digits[i])
        THEN [tag |-> "Ok", value |-> << >>]
        ELSE LET ds == strip_zeros([i \in 1..Len(digits) |-> digits[i] - 48])
             IN  IF DigitsLE(ds, USIZE_MAX)
                 THEN [tag |-> "Ok", value |-> ds]
                 ELSE [tag |-> "Err", kind |-> "PosOverflow"]

\* An optional `+`, then decimal digits; the empty string, a lone sign and
\* any other character are errors, and so is a value above usize::MAX.
parse_usize(s) ==
    LET digits == IF s # << >> /\ Head(s) = 43 THEN Tail(s) ELSE s
    IN  IF s = << >> THEN [tag |-> "Err", kind |-> "Empty"]
        ELSE IF digits = << >> \/ \E i \in 1..Len(digits) : ~IsDigit(digits[i])
        THEN [tag |-> "Err", kind |-> "InvalidDigit"]
        ELSE LET ds == strip_zeros([i \in 1..Len(digits) |-> digits[i] - 48])
             IN  IF DigitsLE(ds, USIZE_MAX)
                 THEN [tag |-> "Ok", value |-> ds]
                 ELSE [tag |-> "Err", kind |-> "PosOverflow"]

BodyNone == [tag |-> "None"]
BodySome(bytes) == [tag |-> "Some", bytes |-> bytes]
QueryNone == [tag |-> "None"]

\* Faulty variant of content_length: a request without the header has the length 0.
content_length_or_zero(m) ==
    IF CONTENT_LENGTH \in DOMAIN m THEN Some(m[CONTENT_LENGTH]) ELSE Some(<<48>>)

\* headers.get("content-length")
content_length(m) == map_get(m, CONTENT_LENGTH)

\* Faulty variant of dispatch: `boundary=` is looked for in the whole content type.
dispatch_boundary_anywhere(content_type) ==
    IF content_type = None THEN [tag |-> "Raw"]
    ELSE LET ct == content_type[1]
             n == find(ct, MULTIPART_CONTENT_TYPE)
         IN  IF n = None THEN [tag |-> "Raw"]
             ELSE LET m == find(ct, MULTIPART_BOUNDARY)
                  IN  IF m = None THEN [tag |-> "NoBoundary"]
                      ELSE [tag |-> "Multipart",
                            boundary |-> SliceFrom(ct, m[1] + Len(MULTIPART_BOUNDARY))]

\* Faulty variant of dispatch: the boundary ends at the first `;` or space.
dispatch_first_token(content_type) ==
    IF content_type = None THEN [tag |-> "Raw"]
    ELSE LET ct == content_type[1]
             n == find(ct, MULTIPART_CONTENT_TYPE)
         IN  IF n = None THEN [tag |-> "Raw"]
             ELSE LET next_idx == n[1] + Len(MULTIPART_CONTENT_TYPE)
                      m == find(SliceFrom(ct, next_idx), MULTIPART_BOUNDARY)
                  IN  IF m = None THEN [tag |-> "NoBoundary"]
                      ELSE LET rest == SliceFrom(ct, next_idx + m[1]
                                                     + Len(MULTIPART_BOUNDARY))
                               stops == {i \in 1..Len(rest) : rest[i] \in {59, 32}}
                           IN  [tag |-> "Multipart",
                                boundary |-> IF stops = {} THEN rest
                                             ELSE SubSeq(rest, 1, Min(stops) - 1)]

\* read_body, after the read: what the content type says the body is.
dispatch(content_type) ==
    IF content_type = None THEN [tag |-> "Raw"]
    ELSE LET ct == content_type[1]
             n == find(ct, MULTIPART_CONTENT_TYPE)
         IN  IF n = None THEN [tag |-> "Raw"]
             ELSE LET next_idx == n[1] + Len(MULTIPART_CONTENT_TYPE)
                      m == find(SliceFrom(ct, next_idx), MULTIPART_BOUNDARY)
                  IN  IF m = None THEN [tag |-> "NoBoundary"]
                      ELSE [tag |-> "Multipart",
                            boundary |-> SliceFrom(ct, next_idx + m[1]
                                                       + Len(MULTIPART_BOUNDARY))]

\* Read::read_exact into a buffer of n bytes: nothing is read for an empty
\* buffer; a stream that fails gives an error at its first read; a stream
\* that ends before n bytes is read to its end and gives an error.
read_exact(stream, fails, n) ==
    IF n = << >> THEN [tag |-> "Ok", bytes |-> << >>, consumed |-> 0]
    ELSE IF fails THEN [tag |-> "Err", kind |-> "Other", consumed |-> 0]
    ELSE IF ExceedsNat(n, Len(stream))
    THEN [tag |-> "Err", kind |-> "UnexpectedEof", consumed |-> Len(stream)]
    ELSE [tag |-> "Ok", bytes |-> SubSeq(stream, 1, ToNat(n, 0)),
          consumed |-> ToNat(n, 0)]

\* One turn of the `for (k, v) in std::env::vars_os()` loop.
EnvEntry ==
    /\ rpc = "env"
    /\ env_idx <= Len(env)
    /\ LET k == from_utf8_lossy(env[env_idx].k)
           v == from_utf8_lossy(env[env_idx].v)
           var_name == strip_prefix(k, HTTP_PREFIX)
       IN  IF var_name # None
           THEN /\ headers_map' = insert(headers_map,
                                         to_lowercase(replace(var_name[1])), v)
                /\ UNCHANGED vars_map
           ELSE /\ vars_map' = insert(vars_map, to_uppercase(k), v)
                /\ UNCHANGED headers_map
    /\ env_idx' = env_idx + 1
    /\ UNCHANGED <<env, rshape, stdin, stdin_fails, stdin_pos, body_len, rpc, ret>>
    /\ UNCHANGED <<multipartVars, chunkVars, queryVars, responseVars>>

\* `let query = match vars.get("QUERY_STRING")`, when the loop is over.
ParseQuery ==
    /\ rpc = "env"
    /\ env_idx > Len(env)
    /\ LET found == map_get(vars_map, QUERY_STRING)
       IN  IF found # None
           THEN /\ qstr' = found[1]
                /\ query' = parse_query_string(found[1])
           ELSE /\ query' = QueryNone
                /\ UNCHANGED qstr
    /\ rpc' = "body"
    /\ UNCHANGED <<qshape, decoded, multipartVars, chunkVars, responseVars>>
    /\ UNCHANGED <<env, rshape, stdin, stdin_fails, stdin_pos, env_idx, vars_map,
                   headers_map, body_len, ret>>

\* `let body = if let Some(len_str) = headers.get("content-length")`, up to the
\* call of read_body.
ContentLength ==
    /\ rpc = "body"
    /\ LET len_str == content_length(headers_map)
       IN  IF len_str = None
           THEN /\ body' = BodyNone
                /\ rpc' = "return"
                /\ UNCHANGED body_len
           ELSE LET parsed == parse_usize(len_str[1])
                IN  IF parsed.tag = "Err"
                    THEN /\ body' = BodyErr(400, "Error parsing Content-length header value")
                         /\ rpc' = "return"
                         /\ UNCHANGED body_len
                    ELSE /\ body_len' = parsed.value
                         /\ rpc' = "read_body"
                         /\ UNCHANGED body
    /\ UNCHANGED <<body_bytes, boundary, shape, pc, position, pos, subslice,
                   next_position, chunks>>
    /\ UNCHANGED <<chunkVars, queryVars, responseVars>>
    /\ UNCHANGED <<env, rshape, stdin, stdin_fails, stdin_pos, env_idx, vars_map,
                   headers_map, ret>>

\* The call read_body(body_len, content_type), up to its return or to the
\* call of read_multipart_body.  vec![0; body_len] panics ("capacity
\* overflow") for a length above isize::MAX; the allocation of a smaller
\* length is taken to succeed.
ReadBody ==
    /\ rpc = "read_body"
    /\ IF ~DigitsLE(body_len, ISIZE_MAX)
       THEN /\ rpc' = "panic"
            /\ UNCHANGED <<body, body_bytes, boundary, pc, stdin_pos>>
       ELSE LET r == read_exact(stdin, stdin_fails, body_len)
            IN  /\ stdin_pos' = r.consumed
                /\ IF r.tag = "Err"
                   THEN /\ body' = BodyErr(500, "Error reading request body")
                        /\ rpc' = "return"
                        /\ UNCHANGED <<body_bytes, boundary, pc>>
                   ELSE LET to == dispatch(map_get(headers_map, CONTENT_TYPE))
                        IN  /\ body_bytes' = r.bytes
                            /\ CASE to.tag = "Raw" ->
                                        /\ body' = BodySome(r.bytes)
                                        /\ rpc' = "return"
                                        /\ UNCHANGED <<boundary, pc>>
                                 [] to.tag = "NoBoundary" ->
                                        /\ body' = BodyErr(400,
                                               "Can't find boundary in Content-type header")
                                        /\ rpc' = "return"
                                        /\ UNCHANGED <<boundary, pc>>
                                 [] to.tag = "Multipart" ->
                                        /\ boundary' = to.boundary
                                        /\ pc' = "start"
                                        /\ rpc' = "multipart"
                                        /\ UNCHANGED body
    /\ UNCHANGED <<shape, position, pos, subslice, next_position, chunks>>
    /\ UNCHANGED <<chunkVars, queryVars, responseVars>>
    /\ UNCHANGED <<env, rshape, stdin, stdin_fails, env_idx, vars_map, headers_map,
                   body_len, ret>>

\* Faulty variant of Return: a request whose body is an error has no query either.
Return_body_error_voids_query ==
    /\ rpc = "return" \/ (rpc = "multipart" /\ pc = "done")
    /\ ret' = [tag |-> "Ok", vars |-> vars_map, headers |-> headers_map,
               query |-> IF body.tag = "Err" THEN QueryNone ELSE query,
               body |-> body]
    /\ rpc' = "done"
    /\ UNCHANGED <<multipartVars, chunkVars, queryVars, responseVars>>
    /\ UNCHANGED <<env, rshape, stdin, stdin_fails, stdin_pos, env_idx, vars_map,
                   headers_map, body_len>>

\* `Ok(Request { vars, headers, query, body })`, once the body is there.
Return ==
    /\ rpc = "return" \/ (rpc = "multipart" /\ pc = "done")
    /\ ret' = [tag |-> "Ok", vars |-> vars_map, headers |-> headers_map,
               query |-> query, body |-> body]
    /\ rpc' = "done"
    /\ UNCHANGED <<multipartVars, chunkVars, queryVars, responseVars>>
    /\ UNCHANGED <<env, rshape, stdin, stdin_fails, stdin_pos, env_idx, vars_map,
                   headers_map, body_len>>

(***************************************************************************)
(* Inputs of Request::new.  The environment is up to MaxExtra entries that *)
(* concern neither the query nor the body, in any order, then at most one  *)
(* entry each for the query string, the content length and the content     *)
(* type.  An entry is given with the map and the key it is expected to go  *)
(* to; a query string with the Query expected; a content length with       *)
(* whether it is a number, and which, or that it is huge, more than any    *)
(* input stream holds; a content type with the kind of body it announces.  *)
(***************************************************************************)
MaxExtra == 2

\* HTTP_X_CUSTOM_HEADER=v
X_custom == [k |-> <<72, 84, 84, 80, 95, 88, 95, 67, 85, 83, 84, 79, 77, 95, 72, 69, 65, 68, 69, 82>>, v |-> <<118>>,
    to |-> "header", key |-> <<120, 45, 99, 117, 115, 116, 111, 109, 45, 104, 101, 97, 100, 101, 114>>]
\* REQUEST_METHOD=GET
X_method == [k |-> <<82, 69, 81, 85, 69, 83, 84, 95, 77, 69, 84, 72, 79, 68>>, v |-> <<71, 69, 84>>,
    to |-> "var", key |-> <<82, 69, 81, 85, 69, 83, 84, 95, 77, 69, 84, 72, 79, 68>>]
\* http_x=w
X_lower == [k |-> <<104, 116, 116, 112, 95, 120>>, v |-> <<119>>,
    to |-> "var", key |-> <<72, 84, 84, 80, 95, 88>>]
\* HTTP_X-Custom_header=u
X_mixed == [k |-> <<72, 84, 84, 80, 95, 88, 45, 67, 117, 115, 116, 111, 109, 95, 104, 101, 97, 100, 101, 114>>, v |-> <<117>>,
    to |-> "header", key |-> <<120, 45, 99, 117, 115, 116, 111, 109, 45, 104, 101, 97, 100, 101, 114>>]
\* HTTP_X=1
X_upper == [k |-> <<72, 84, 84, 80, 95, 88>>, v |-> <<49>>,
    to |-> "header", key |-> <<120>>]

ExtraEntries == {X_custom, X_method, X_lower, X_mixed, X_upper}

ExtraSeqs ==
    {xs \in UNION {[1..n -> ExtraEntries] : n \in 0..MaxExtra} :
        \A i, j \in 1..Len(xs) : i # j => xs[i] # xs[j]}

\* QUERY_STRING=a=1
QS_a1 == [k |-> <<81, 85, 69, 82, 89, 95, 83, 84, 82, 73, 78, 71>>, v |-> <<97, 61, 49>>,
    to |-> "var", key |-> <<81, 85, 69, 82, 89, 95, 83, 84, 82, 73, 78, 71>>,
    expect |-> [tag |-> "Some", map |-> (<<97>> :> <<49>>)]]
\* QUERY_STRING=a=1&bogus
QS_bogus == [k |-> <<81, 85, 69, 82, 89, 95, 83, 84, 82, 73, 78, 71>>, v |-> <<97, 61, 49, 38, 98, 111, 103, 117, 115>>,
    to |-> "var", key |-> <<81, 85, 69, 82, 89, 95, 83, 84, 82, 73, 78, 71>>,
    expect |-> [tag |-> "Err"]]
\* query_string=b=2
QS_lower == [k |-> <<113, 117, 101, 114, 121, 95, 115, 116, 114, 105, 110, 103>>, v |-> <<98, 61, 50>>,
    to |-> "var", key |-> <<81, 85, 69, 82, 89, 95, 83, 84, 82, 73, 78, 71>>,
    expect |-> [tag |-> "Some", map |-> (<<98>> :> <<50>>)]]

QueryOpts == {<< >>, <<QS_a1>>, <<QS_bogus>>, <<QS_lower>>}

\* HTTP_CONTENT_LENGTH=0
CL_0 == [k |-> <<72, 84, 84, 80, 95, 67, 79, 78, 84, 69, 78, 84, 95, 76, 69, 78, 71, 84, 72>>, v |-> <<48>>,
    to |-> "header", key |-> <<99, 111, 110, 116, 101, 110, 116, 45, 108, 101, 110, 103, 116, 104>>,
    number |-> TRUE, n |-> 0, huge |-> FALSE]
\* HTTP_CONTENT_LENGTH=3
CL_3 == [k |-> <<72, 84, 84, 80, 95, 67, 79, 78, 84, 69, 78, 84, 95, 76, 69, 78, 71, 84, 72>>, v |-> <<51>>,
    to |-> "header", key |-> <<99, 111, 110, 116, 101, 110, 116, 45, 108, 101, 110, 103, 116, 104>>,
    number |-> TRUE, n |-> 3, huge |-> FALSE]
\* HTTP_CONTENT_LENGTH=7
CL_7 == [k |-> <<72, 84, 84, 80, 95, 67, 79, 78, 84, 69, 78, 84, 95, 76, 69, 78, 71, 84, 72>>, v |-> <<55>>,
    to |-> "header", key |-> <<99, 111, 110, 116, 101, 110, 116, 45, 108, 101, 110, 103, 116, 104>>,
    number |-> TRUE, n |-> 7, huge |-> FALSE]
\* HTTP_CONTENT_LENGTH=15
CL_15 == [k |-> <<72, 84, 84, 80, 95, 67, 79, 78, 84, 69, 78, 84, 95, 76, 69, 78, 71, 84, 72>>, v |-> <<49, 53>>,
    to |-> "header", key |-> <<99, 111, 110, 116, 101, 110, 116, 45, 108, 101, 110, 103, 116, 104>>,
    number |-> TRUE, n |-> 15, huge |-> FALSE]
\* HTTP_CONTENT_LENGTH=+2
CL_plus2 == [k |-> <<72, 84, 84, 80, 95, 67, 79, 78, 84, 69, 78, 84, 95, 76, 69, 78, 71, 84, 72>>, v |-> <<43, 50>>,
    to |-> "header", key |-> <<99, 111, 110, 116, 101, 110, 116, 45, 108, 101, 110, 103, 116, 104>>,
    number |-> TRUE, n |-> 2, huge |-> FALSE]
\* HTTP_CONTENT_LENGTH=
CL_empty == [k |-> <<72, 84, 84, 80, 95, 67, 79, 78, 84, 69, 78, 84, 95, 76, 69, 78, 71, 84, 72>>, v |-> << >>,
    to |-> "header", key |-> <<99, 111, 110, 116, 101, 110, 116, 45, 108, 101, 110, 103, 116, 104>>,
    number |-> FALSE, n |-> 0, huge |-> FALSE]
\* HTTP_CONTENT_LENGTH=-1
CL_minus1 == [k |-> <<72, 84, 84, 80, 95, 67, 79, 78, 84, 69, 78, 84, 95, 76, 69, 78, 71, 84, 72>>, v |-> <<45, 49>>,
    to |-> "header", key |-> <<99, 111, 110, 116, 101, 110, 116, 45, 108, 101, 110, 103, 116, 104>>,
    number |-> FALSE, n |-> 0, huge |-> FALSE]
\* HTTP_CONTENT_LENGTH=1x
CL_1x == [k |-> <<72, 84, 84, 80, 95, 67, 79, 78, 84, 69, 78, 84, 95, 76, 69, 78, 71, 84, 72>>, v |-> <<49, 120>>,
    to |-> "header", key |-> <<99, 111, 110, 116, 101, 110, 116, 45, 108, 101, 110, 103, 116, 104>>,
    number |-> FALSE, n |-> 0, huge |-> FALSE]
\* usize::MAX, and usize::MAX + 1
\* HTTP_CONTENT_LENGTH=18446744073709551615
CL_max == [k |-> <<72, 84, 84, 80, 95, 67, 79, 78, 84, 69, 78, 84, 95, 76, 69, 78, 71, 84, 72>>, v |-> <<49, 56, 52, 52, 54, 55, 52, 52, 48, 55, 51, 55, 48, 57, 53, 53, 49, 54, 49, 53>>,
    to |-> "header", key |-> <<99, 111, 110, 116, 101, 110, 116, 45, 108, 101, 110, 103, 116, 104>>,
    number |-> TRUE, n |-> 0, huge |-> TRUE]
\* HTTP_CONTENT_LENGTH=18446744073709551616
CL_over == [k |-> <<72, 84, 84, 80, 95, 67, 79, 78, 84, 69, 78, 84, 95, 76, 69, 78, 71, 84, 72>>, v |-> <<49, 56, 52, 52, 54, 55, 52, 52, 48, 55, 51, 55, 48, 57, 53, 53, 49, 54, 49, 54>>,
    to |-> "header", key |-> <<99, 111, 110, 116, 101, 110, 116, 45, 108, 101, 110, 103, 116, 104>>,
    number |-> FALSE, n |-> 0, huge |-> FALSE]
\* HTTP_Content-Length=3
CL_mixed == [k |-> <<72, 84, 84, 80, 95, 67, 111, 110, 116, 101, 110, 116, 45, 76, 101, 110, 103, 116, 104>>, v |-> <<51>>,
    to |-> "header", key |-> <<99, 111, 110, 116, 101, 110, 116, 45, 108, 101, 110, 103, 116, 104>>,
    number |-> TRUE, n |-> 3, huge |-> FALSE]
\* the variable CONTENT_LENGTH is no header
\* CONTENT_LENGTH=3
CL_var == [k |-> <<67, 79, 78, 84, 69, 78, 84, 95, 76, 69, 78, 71, 84, 72>>, v |-> <<51>>,
    to |-> "var", key |-> <<67, 79, 78, 84, 69, 78, 84, 95, 76, 69, 78, 71, 84, 72>>,
    number |-> FALSE, n |-> 0, huge |-> FALSE]

LengthOpts == {<< >>, <<CL_0>>, <<CL_3>>, <<CL_7>>, <<CL_15>>, <<CL_plus2>>, <<CL_empty>>,
               <<CL_minus1>>, <<CL_1x>>, <<CL_max>>, <<CL_over>>, <<CL_mixed>>,
               <<CL_var>>}

\* HTTP_CONTENT_TYPE=text/plain
CT_text == [k |-> <<72, 84, 84, 80, 95, 67, 79, 78, 84, 69, 78, 84, 95, 84, 89, 80, 69>>, v |-> <<116, 101, 120, 116, 47, 112, 108, 97, 105, 110>>,
    to |-> "header", key |-> <<99, 111, 110, 116, 101, 110, 116, 45, 116, 121, 112, 101>>,
    kind |-> "raw"]
\* HTTP_CONTENT_TYPE=multipart/form-data; boundary=X
CT_multipart == [k |-> <<72, 84, 84, 80, 95, 67, 79, 78, 84, 69, 78, 84, 95, 84, 89, 80, 69>>, v |-> <<109, 117, 108, 116, 105, 112, 97, 114, 116, 47, 102, 111, 114, 109, 45, 100, 97, 116, 97, 59, 32, 98, 111, 117, 110, 100, 97, 114, 121, 61, 88>>,
    to |-> "header", key |-> <<99, 111, 110, 116, 101, 110, 116, 45, 116, 121, 112, 101>>,
    kind |-> "multipart", boundary |-> <<88>>]
\* HTTP_CONTENT_TYPE=multipart/form-data
CT_noboundary == [k |-> <<72, 84, 84, 80, 95, 67, 79, 78, 84, 69, 78, 84, 95, 84, 89, 80, 69>>, v |-> <<109, 117, 108, 116, 105, 112, 97, 114, 116, 47, 102, 111, 114, 109, 45, 100, 97, 116, 97>>,
    to |-> "header", key |-> <<99, 111, 110, 116, 101, 110, 116, 45, 116, 121, 112, 101>>,
    kind |-> "noboundary"]
\* HTTP_CONTENT_TYPE=boundary=X; multipart/form-data
CT_before == [k |-> <<72, 84, 84, 80, 95, 67, 79, 78, 84, 69, 78, 84, 95, 84, 89, 80, 69>>, v |-> <<98, 111, 117, 110, 100, 97, 114, 121, 61, 88, 59, 32, 109, 117, 108, 116, 105, 112, 97, 114, 116, 47, 102, 111, 114, 109, 45, 100, 97, 116, 97>>,
    to |-> "header", key |-> <<99, 111, 110, 116, 101, 110, 116, 45, 116, 121, 112, 101>>,
    kind |-> "noboundary"]
\* HTTP_CONTENT_TYPE=Multipart/Form-Data; boundary=X
CT_upper == [k |-> <<72, 84, 84, 80, 95, 67, 79, 78, 84, 69, 78, 84, 95, 84, 89, 80, 69>>, v |-> <<77, 117, 108, 116, 105, 112, 97, 114, 116, 47, 70, 111, 114, 109, 45, 68, 97, 116, 97, 59, 32, 98, 111, 117, 110, 100, 97, 114, 121, 61, 88>>,
    to |-> "header", key |-> <<99, 111, 110, 116, 101, 110, 116, 45, 116, 121, 112, 101>>,
    kind |-> "raw"]

TypeOpts == {<< >>, <<CT_text>>, <<CT_multipart>>, <<CT_noboundary>>, <<CT_before>>,
             <<CT_upper>>}

\* The input stream: "", "abc", the framed body "--X\\r\\n\\r\\np\\r\\n--X--" of
\* one part, and a stream whose reads fail.
Stdins == {[bytes |-> << >>, fails |-> FALSE],
           [bytes |-> <<97, 98, 99>>, fails |-> FALSE],
           [bytes |-> <<45, 45, 88, 13, 10, 13, 10, 112, 13, 10, 45, 45, 88, 45, 45>>,
            fails |-> FALSE],
           [bytes |-> <<97, 98, 99>>, fails |-> TRUE]}

InitRequest ==
    /\ rshape \in [extras : ExtraSeqs, q : QueryOpts, len : LengthOpts,
                   type : TypeOpts]
    /\ env = rshape.extras \o rshape.q \o rshape.len \o rshape.type
    /\ \E s \in Stdins : stdin = s.bytes /\ stdin_fails = s.fails
    /\ stdin_pos = 0
    /\ env_idx = 1
    /\ vars_map = EmptyMap
    /\ headers_map = EmptyMap
    /\ body_len = << >>
    /\ rpc = "env"
    /\ ret = Unreturned
    /\ body_bytes = << >>
    /\ boundary = << >>
    /\ shape = << >>
    /\ pc = "idle"
    /\ position = 0
    /\ pos = 0
    /\ subslice = 0
    /\ next_position = None
    /\ chunks = << >>
    /\ body = Unreturned
    /\ qstr = << >>
    /\ qshape = << >>
    /\ decoded = [tag |-> "Idle"]
    /\ query = Unreturned
    /\ IdleChunk
    /\ IdleResponse

NextRequest ==
    \/ EnvEntry
    \/ ParseQuery
    \/ ContentLength
    \/ ReadBody
    \/ FindFirstBoundary
    \/ EnterScan
    \/ ScanStep
    \/ PushChunk
    \/ ReadParts
    \/ Return

SpecRequest == InitRequest /\ [][NextRequest]_vars

(***************************************************************************)
(* Request::new on further forms of the query string and of the content    *)
(* type: query strings with an empty chunk, and content types whose        *)
(* `boundary=` is followed by quotes, by a further parameter, by a space,  *)
(* by a second `boundary=`, or by nothing.  The input stream is a body of  *)
(* one part framed by `--X`, or one framed by `--` alone.                  *)
(***************************************************************************)
\* QUERY_STRING= (the empty string)
QS_empty == [k |-> <<81, 85, 69, 82, 89, 95, 83, 84, 82, 73, 78, 71>>, v |-> << >>,
    to |-> "var", key |-> <<81, 85, 69, 82, 89, 95, 83, 84, 82, 73, 78, 71>>,
    expect |-> [tag |-> "Err"]]
\* QUERY_STRING=a=1&
QS_trail == [k |-> <<81, 85, 69, 82, 89, 95, 83, 84, 82, 73, 78, 71>>, v |-> <<97, 61, 49, 38>>,
    to |-> "var", key |-> <<81, 85, 69, 82, 89, 95, 83, 84, 82, 73, 78, 71>>,
    expect |-> [tag |-> "Err"]]
\* QUERY_STRING=&a=1
QS_lead == [k |-> <<81, 85, 69, 82, 89, 95, 83, 84, 82, 73, 78, 71>>, v |-> <<38, 97, 61, 49>>,
    to |-> "var", key |-> <<81, 85, 69, 82, 89, 95, 83, 84, 82, 73, 78, 71>>,
    expect |-> [tag |-> "Err"]]
\* QUERY_STRING=a=1&&b=2
QS_double == [k |-> <<81, 85, 69, 82, 89, 95, 83, 84, 82, 73, 78, 71>>, v |-> <<97, 61, 49, 38, 38, 98, 61, 50>>,
    to |-> "var", key |-> <<81, 85, 69, 82, 89, 95, 83, 84, 82, 73, 78, 71>>,
    expect |-> [tag |-> "Err"]]

QueryForms == {<< >>, <<QS_a1>>, <<QS_empty>>, <<QS_lead>>, <<QS_trail>>, <<QS_double>>}

\* HTTP_CONTENT_LENGTH=13
CL_13 == [k |-> <<72, 84, 84, 80, 95, 67, 79, 78, 84, 69, 78, 84, 95, 76, 69, 78, 71, 84, 72>>, v |-> <<49, 51>>,
    to |-> "header", key |-> <<99, 111, 110, 116, 101, 110, 116, 45, 108, 101, 110, 103, 116, 104>>,
    number |-> TRUE, n |-> 13, huge |-> FALSE]

LengthForms == {<< >>, <<CL_13>>, <<CL_15>>}

\* HTTP_CONTENT_TYPE=multipart/form-data; boundary="X"
CT_quoted == [k |-> <<72, 84, 84, 80, 95, 67, 79, 78, 84, 69, 78, 84, 95, 84, 89, 80, 69>>,
    v |-> <<109, 117, 108, 116, 105, 112, 97, 114, 116, 47, 102, 111, 114, 109, 45, 100, 97, 116, 97, 59, 32, 98, 111, 117, 110, 100, 97, 114, 121, 61, 34, 88, 34>>,
    to |-> "header", key |-> <<99, 111, 110, 116, 101, 110, 116, 45, 116, 121, 112, 101>>,
    kind |-> "multipart", boundary |-> <<34, 88, 34>>]
\* HTTP_CONTENT_TYPE=multipart/form-data; boundary=X; charset=utf-8
CT_param == [k |-> <<72, 84, 84, 80, 95, 67, 79, 78, 84, 69, 78, 84, 95, 84, 89, 80, 69>>,
    v |-> <<109, 117, 108, 116, 105, 112, 97, 114, 116, 47, 102, 111, 114, 109, 45, 100, 97, 116, 97, 59, 32, 98, 111, 117, 110, 100, 97, 114, 121, 61, 88, 59, 32, 99, 104, 97, 114, 115, 101, 116, 61, 117, 116, 102, 45, 56>>,
    to |-> "header", key |-> <<99, 111, 110, 116, 101, 110, 116, 45, 116, 121, 112, 101>>,
    kind |-> "multipart", boundary |-> <<88, 59, 32, 99, 104, 97, 114, 115, 101, 116, 61, 117, 116, 102, 45, 56>>]
\* HTTP_CONTENT_TYPE=multipart/form-data; boundary=X (and a space)
CT_space == [k |-> <<72, 84, 84, 80, 95, 67, 79, 78, 84, 69, 78, 84, 95, 84, 89, 80, 69>>,
    v |-> <<109, 117, 108, 116, 105, 112, 97, 114, 116, 47, 102, 111, 114, 109, 45, 100, 97, 116, 97, 59, 32, 98, 111, 117, 110, 100, 97, 114, 121, 61, 88, 32>>,
    to |-> "header", key |-> <<99, 111, 110, 116, 101, 110, 116, 45, 116, 121, 112, 101>>,
    kind |-> "multipart", boundary |-> <<88, 32>>]
\* HTTP_CONTENT_TYPE=multipart/form-data; boundary=X; boundary=Y
CT_twice == [k |-> <<72, 84, 84, 80, 95, 67, 79, 78, 84, 69, 78, 84, 95, 84, 89, 80, 69>>,
    v |-> <<109, 117, 108, 116, 105, 112, 97, 114, 116, 47, 102, 111, 114, 109, 45, 100, 97, 116, 97, 59, 32, 98, 111, 117, 110, 100, 97, 114, 121, 61, 88, 59, 32, 98, 111, 117, 110, 100, 97, 114, 121, 61, 89>>,
    to |-> "header", key |-> <<99, 111, 110, 116, 101, 110, 116, 45, 116, 121, 112, 101>>,
    kind |-> "multipart", boundary |-> <<88, 59, 32, 98, 111, 117, 110, 100, 97, 114, 121, 61, 89>>]
\* HTTP_CONTENT_TYPE=multipart/form-data; boundary=
CT_blank == [k |-> <<72, 84, 84, 80, 95, 67, 79, 78, 84, 69, 78, 84, 95, 84, 89, 80, 69>>,
    v |-> <<109, 117, 108, 116, 105, 112, 97, 114, 116, 47, 102, 111, 114, 109, 45, 100, 97, 116, 97, 59, 32, 98, 111, 117, 110, 100, 97, 114, 121, 61>>,
    to |-> "header", key |-> <<99, 111, 110, 116, 101, 110, 116, 45, 116, 121, 112, 101>>,
    kind |-> "multipart", boundary |-> << >>]

TypeForms == {<< >>, <<CT_multipart>>, <<CT_quoted>>, <<CT_param>>, <<CT_space>>,
              <<CT_twice>>, <<CT_blank>>}

\* "--X\\r\\n\\r\\np\\r\\n--X--" and "--\\r\\n\\r\\np\\r\\n----"
StdinForms == {<<45, 45, 88, 13, 10, 13, 10, 112, 13, 10, 45, 45, 88, 45, 45>>,
               <<45, 45, 13, 10, 13, 10, 112, 13, 10, 45, 45, 45, 45>>}

InitRequestForms ==
    /\ rshape \in [extras : {<< >>, <<X_method>>}, q : QueryForms, len : LengthForms,
                   type : TypeForms]
    /\ env = rshape.extras \o rshape.q \o rshape.len \o rshape.type
    /\ stdin \in StdinForms
    /\ stdin_fails = FALSE
    /\ stdin_pos = 0
    /\ env_idx = 1
    /\ vars_map = EmptyMap
    /\ headers_map = EmptyMap
    /\ body_len = << >>
    /\ rpc = "env"
    /\ ret = Unreturned
    /\ body_bytes = << >>
    /\ boundary = << >>
    /\ shape = << >>
    /\ pc = "idle"
    /\ position = 0
    /\ pos = 0
    /\ subslice = 0
    /\ next_position = None
    /\ chunks = << >>
    /\ body = Unreturned
    /\ qstr = << >>
    /\ qshape = << >>
    /\ decoded = [tag |-> "Idle"]
    /\ query = Unreturned
    /\ IdleChunk
    /\ IdleResponse

SpecRequestForms == InitRequestForms /\ [][NextRequest]_vars

\* Request::new is past its environment loop.
EnvRead == rpc \notin {"idle", "env"} \/ (rpc = "env" /\ env_idx > Len(env))

\* The keys the entries of the environment are expected to give in a map.
ExpectedKeys(to) == {env[i].key : i \in {j \in 1..Len(env) : env[j].to = to}}

\* The value of the last entry of the environment expected under a key.
LastValue(to, key) ==
    LET at == {i \in 1..Len(env) : env[i].to = to /\ env[i].key = key}
    IN  env[CHOOSE i \in at : \A j \in at : j <= i].v

IsLowerKey(k) == \A i \in 1..Len(k) : ~(k[i] >= 65 /\ k[i] <= 90) /\ k[i] # 95
IsUpperKey(k) == \A i \in 1..Len(k) : ~(k[i] >= 97 /\ k[i] <= 122)

(* C12: once the environment is read, the headers are exactly the entries  *)
(* whose key begins with `HTTP_`, each under the rest of its key with `_`  *)
(* replaced by `-` and lower-cased, and the vars are exactly the other     *)
(* entries, each under its upper-cased key; no entry gives a key in both   *)
(* maps; every header key is lower-case without `_` and every var key is   *)
(* upper-case.  Entries that give the same key share it, with the value of *)
(* the later one.                                                          *)
C12_EnvClassified ==
    EnvRead =>
        /\ DOMAIN headers_map = ExpectedKeys("header")
        /\ DOMAIN vars_map = ExpectedKeys("var")
        /\ \A k \in DOMAIN headers_map :
              headers_map[k] = LastValue("header", k) /\ IsLowerKey(k)
        /\ \A k \in DOMAIN vars_map :
              vars_map[k] = LastValue("var", k) /\ IsUpperKey(k)
        /\ \A i \in 1..Len(env) :
              env[i].to = IF starts_with(env[i].k, HTTP_PREFIX) THEN "header" ELSE "var"

\* HTTP_X_CUSTOM_HEADER=v and REQUEST_METHOD=GET: the header x-custom-header
\* and the var REQUEST_METHOD.
C12_Witness ==
    /\ rshape.extras = <<X_custom, X_method>>
    /\ rpc = "done"
    /\ X_custom.key \in DOMAIN ret.headers
    /\ ret.headers[X_custom.key] = <<118>>
    /\ X_method.k \in DOMAIN ret.vars
    /\ X_method.k \notin DOMAIN ret.headers
    /\ X_custom.k \notin DOMAIN ret.vars

\* The environment holds an entry that is expected to be the content-length
\* header.
HasLength == rshape.len # << >> /\ rshape.len[1].to = "header"

(* C13: the body of the request is Body::None exactly when the headers     *)
(* hold no `content-length`; without that header nothing is read from the  *)
(* input stream, and with it the body is never Body::None.                 *)
C13_NoneIffNoLength ==
    /\ EnvRead => (HasLength <=> CONTENT_LENGTH \in DOMAIN headers_map)
    /\ ~HasLength => (stdin_pos = 0 /\ rpc \notin {"read_body", "multipart", "panic"})
    /\ (rpc \in {"return", "done"} /\ ~HasLength) => body = BodyNone
    /\ (rpc \in {"return", "multipart", "done"} /\ HasLength) => body # BodyNone
    /\ rpc = "done" => (ret.body = BodyNone <=> CONTENT_LENGTH \notin DOMAIN ret.headers)

\* The variable CONTENT_LENGTH=3 is no header: the body is Body::None and
\* the stream "abc" is left unread.
C13_Witness ==
    /\ rshape.len = <<CL_var>>
    /\ stdin = <<97, 98, 99>>
    /\ rpc = "done"
    /\ ret.body = BodyNone
    /\ stdin_pos = 0

\* The Query the query-string entry of the environment is expected to give.
ExpectedQuery == IF rshape.q = << >> THEN QueryNone ELSE rshape.q[1].expect

QueryIs(q, e) == q.tag = e.tag /\ (e.tag = "Some" => q.map = e.map)

\* Request::new returned Ok with the maps and the query populated.
ReturnedOk ==
    /\ ret.tag = "Ok"
    /\ DOMAIN ret.vars = ExpectedKeys("var")
    /\ DOMAIN ret.headers = ExpectedKeys("header")
    /\ QueryIs(ret.query, ExpectedQuery)
    /\ ret.body = body

\* The content-length header is there, and its value is no number that
\* fits a usize.
BadLength == HasLength /\ ~rshape.len[1].number

(* C14: when the `content-length` header is present and its value does not *)
(* parse as a non-negative integer, no byte is read from the input stream, *)
(* the body is Body::Err with code 400, and Request::new goes on to return *)
(* Ok with vars, headers and query populated.                              *)
C14_BadLengthIsErr ==
    BadLength =>
        /\ stdin_pos = 0
        /\ rpc \in {"env", "body", "return", "done"}
        /\ rpc \in {"return", "done"} => (body.tag = "Err" /\ body.code = 400)
        /\ rpc = "done" => ReturnedOk

\* content-length "-1" with QUERY_STRING "a=1" and the stream "abc".
C14_Witness ==
    /\ rshape.len = <<CL_minus1>>
    /\ rshape.q = <<QS_a1>>
    /\ stdin = <<97, 98, 99>>
    /\ rpc = "done"
    /\ ret.body.tag = "Err"
    /\ ret.body.code = 400
    /\ ret.query.tag = "Some"
    /\ stdin_pos = 0

\* The content-length header is a number and the input stream does not
\* give that many bytes: it holds fewer, or reading it fails.
ShortRead ==
    /\ HasLength
    /\ rshape.len[1].number
    /\ \/ rshape.len[1].huge
       \/ rshape.len[1].n > Len(stdin)
       \/ stdin_fails /\ rshape.len[1].n > 0

(* C15: when the input stream gives fewer bytes than the content length,   *)
(* or the read fails, Request::new does not fail: the body is Body::Err    *)
(* with code 500, whatever the content type is, and Request::new returns   *)
(* Ok with vars, headers and query populated.                              *)
C15_ShortReadIsErr ==
    ShortRead =>
        /\ rpc \in {"env", "body", "read_body", "return", "done"}
        /\ rpc \in {"return", "done"} => (body.tag = "Err" /\ body.code = 500)
        /\ rpc = "done" => ReturnedOk

\* The content-length header is a number and the input stream gives that
\* many bytes.
ReadOk == HasLength /\ rshape.len[1].number /\ ~ShortRead

\* The bytes read_exact is expected to put in the buffer.
BytesRead == SubSeq(stdin, 1, rshape.len[1].n)

\* The kind of body the content type is expected to announce.
TypeKind == IF rshape.type = << >> THEN "raw" ELSE rshape.type[1].kind

(* C16: after a successful read of the body, a content type that holds     *)
(* `multipart/form-data` and, after it, `boundary=` makes read_body parse  *)
(* the bytes read as multipart, with what follows `boundary=` as boundary; *)
(* one that holds `multipart/form-data` with no `boundary=` after it gives *)
(* Body::Err (code 400, no boundary in the content type); any other, and   *)
(* no content type at all, gives Body::Some of exactly the bytes read.     *)
C16_Dispatch ==
    (ReadOk /\ rpc \notin {"env", "body", "read_body"}) =>
        /\ rpc \in {"return", "multipart", "done"}
        /\ stdin_pos = rshape.len[1].n
        /\ body_bytes = BytesRead
        /\ TypeKind = "raw" => (pc = "idle" /\ body = BodySome(BytesRead))
        /\ TypeKind = "noboundary" =>
              /\ pc = "idle"
              /\ body = BodyErr(400, "Can't find boundary in Content-type header")
        /\ TypeKind = "multipart" =>
              /\ pc # "idle"
              /\ boundary = rshape.type[1].boundary
              /\ pc # "done" => body = Unreturned
              /\ pc = "done" => body.tag \in {"Multipart", "Err"}
              /\ (pc = "done" /\ Len(BytesRead) = 15) =>
                    body = BodyMultipart(<<[headers |-> EmptyMap, body |-> <<112>>]>>)
        /\ rpc = "done" => ReturnedOk

\* The framed body of one part, read whole under
\* "multipart/form-data; boundary=X".
C16_Witness ==
    /\ rshape.type = <<CT_multipart>>
    /\ rshape.len = <<CL_15>>
    /\ Len(stdin) = 15
    /\ rpc = "done"
    /\ ret.body = BodyMultipart(<<[headers |-> EmptyMap, body |-> <<112>>]>>)

(* C17: the query of the request is a function of the QUERY_STRING         *)
(* variable alone: from the moment it is computed, and in the request      *)
(* returned, it is the Query that the query-string entry of the            *)
(* environment gives (Query::None without one), whatever the content       *)
(* length, the content type and the input stream are, also when the body   *)
(* is Body::Err.                                                           *)
C17_QueryIndependent ==
    /\ rpc \notin {"idle", "env"} =>
          /\ QueryIs(query, ExpectedQuery)
          /\ query = IF QUERY_STRING \in DOMAIN vars_map
                     THEN parse_query_string(vars_map[QUERY_STRING])
                     ELSE QueryNone
    /\ rpc = "done" => QueryIs(ret.query, ExpectedQuery)

\* QUERY_STRING "a=1" with content-length 3 and a stream whose read fails:
\* the body is an error and the query is a -> 1.
C17_Witness ==
    /\ rshape.q = <<QS_a1>>
    /\ rshape.len = <<CL_3>>
    /\ stdin_fails
    /\ rpc = "done"
    /\ ret.body.tag = "Err"
    /\ ret.body.code = 500
    /\ ret.query = QuerySome(<<97>> :> <<49>>)

(***************************************************************************)
(* src/src/response.rs: EmptyResponse and FullResponse.                    *)
(*                                                                         *)
(* resp is the response value: kind says which of the two types it is,     *)
(* headers is its HashMap<String, HeaderValue>, a HeaderValue being        *)
(* [name, value].  What respond writes is kept as the set of header lines, *)
(* each <<name, value>> (the HashMap is iterated in no given order), and   *)
(* the body bytes.                                                         *)
(***************************************************************************)
MaxAdds == 3

HeaderValue(name, value) == [name |-> name, value |-> value]

\* Faulty variant of add_header: a header that is there is replaced.
add_header_replace(hs, name, value) ==
    insert(hs, to_lowercase(name), HeaderValue(name, value))

\* add_header (with_header is the same on an owned value): the entry under
\* the lower-cased name gets ", " and the value appended, or is created with
\* the name as given.
add_header(hs, name, value) ==
    LET name_key == to_lowercase(name)
    IN  IF name_key \in DOMAIN hs
        THEN [hs EXCEPT ![name_key].value = @ \o <<44, 32>> \o value]
        ELSE insert(hs, name_key, HeaderValue(name, value))

\* get_header
get_header(hs, name) ==
    LET found == map_get(hs, to_lowercase(name))
    IN  IF found = None THEN None ELSE Some(found[1].value)

\* format!("{}", n)
RECURSIVE format_number(_)
format_number(n) ==
    IF n < 10 THEN <<48 + n>> ELSE Append(format_number(n \div 10), 48 + (n % 10))

\* "Status", "status", "Content-type", "Content-length"
STATUS_NAME == <<83, 116, 97, 116, 117, 115>>
STATUS_KEY == <<115, 116, 97, 116, 117, 115>>
CONTENT_TYPE_NAME == <<67, 111, 110, 116, 101, 110, 116, 45, 116, 121, 112, 101>>
CONTENT_LENGTH_NAME ==
    <<67, 111, 110, 116, 101, 110, 116, 45, 108, 101, 110, 103, 116, 104>>

\* The `for (_, header) in self.headers.iter()` loop of respond.
header_lines(hs) == {<<hs[k].name, hs[k].value>> : k \in DOMAIN hs}

\* The headers of an EmptyResponse as respond sends them.
empty_respond_headers(r) ==
    insert(r.headers, STATUS_KEY,
           HeaderValue(STATUS_NAME, format_number(r.status)))

\* The headers of a FullResponse as respond sends them.
full_respond_headers(r) ==
    LET with_status == add_header(r.headers, STATUS_NAME, format_number(r.status))
    IN  IF Len(r.body) > 0
        THEN add_header(add_header(with_status, CONTENT_TYPE_NAME, r.content_type),
                        CONTENT_LENGTH_NAME, format_number(Len(r.body)))
        ELSE with_status

(***************************************************************************)
(* Inputs of the response builders.  A header name is given with the name  *)
(* it is expected to be equal to when case is ignored.                     *)
(***************************************************************************)
\* "X", "x"
N_X == [text |-> <<88>>, canon |-> <<120>>]
N_x == [text |-> <<120>>, canon |-> <<120>>]
\* "Content-Type", "content-type"
N_CT == [text |-> <<67, 111, 110, 116, 101, 110, 116, 45, 84, 121, 112, 101>>,
         canon |-> <<99, 111, 110, 116, 101, 110, 116, 45, 116, 121, 112, 101>>]
N_ct == [text |-> <<99, 111, 110, 116, 101, 110, 116, 45, 116, 121, 112, 101>>,
         canon |-> <<99, 111, 110, 116, 101, 110, 116, 45, 116, 121, 112, 101>>]
\* "CONTENT-LENGTH"
N_CL == [text |-> <<67, 79, 78, 84, 69, 78, 84, 45, 76, 69, 78, 71, 84, 72>>,
         canon |-> <<99, 111, 110, 116, 101, 110, 116, 45, 108, 101, 110, 103, 116, 104>>]

\* "Status"
N_Status == [text |-> <<83, 116, 97, 116, 117, 115>>, canon |-> <<115, 116, 97, 116, 117, 115>>]

HeaderNames == {N_X, N_x, N_CT, N_ct, N_CL, N_Status}

\* "1", "9"
HeaderValues == {<<49>>, <<57>>}

\* "text/plain"
ContentTypes == {<<116, 101, 120, 116, 47, 112, 108, 97, 105, 110>>}

\* "", "hello", "hello world"
Bodies == {<< >>, <<104, 101, 108, 108, 111>>,
           <<104, 101, 108, 108, 111, 32, 119, 111, 114, 108, 100>>}

Statuses == {200}

\* Nothing consumed, no with_body, nothing written.
NoBodyLog == [consumed |-> None, base |-> << >>, writes |-> << >>, ret |-> None]

\* EmptyResponse::new(status)
InitResponse ==
    /\ \E st \in Statuses :
          resp = [kind |-> "Empty", status |-> st, headers |-> EmptyMap]
    /\ added = << >>
    /\ out = Unreturned
    /\ body_log = NoBodyLog
    /\ IdleMultipart
    /\ IdleChunk
    /\ IdleQuery
    /\ IdleRequest

\* EmptyResponse::add_header / with_header, FullResponse::add_header /
\* with_header
AddHeader ==
    /\ resp.kind \in {"Empty", "Full"}
    /\ out = Unreturned
    /\ Len(added) < MaxAdds
    /\ \E n \in HeaderNames, v \in HeaderValues :
          /\ resp' = [resp EXCEPT !.headers = add_header(@, n.text, v)]
          /\ added' = Append(added, [name |-> n.text, canon |-> n.canon, value |-> v])
    /\ UNCHANGED <<out, body_log, multipartVars, chunkVars, queryVars, requestVars>>

\* EmptyResponse::with_content_type
WithContentType ==
    /\ resp.kind = "Empty"
    /\ out = Unreturned
    /\ \E ct \in ContentTypes :
          resp' = [kind |-> "Full", status |-> resp.status, headers |-> resp.headers,
                   content_type |-> ct, body |-> << >>]
    /\ body_log' = [body_log EXCEPT !.consumed = Some(resp)]
    /\ UNCHANGED <<added, out, multipartVars, chunkVars, queryVars, requestVars>>

\* FullResponse::with_body
WithBody ==
    /\ resp.kind = "Full"
    /\ out = Unreturned
    /\ \E b \in Bodies :
          /\ resp' = [resp EXCEPT !.body = b]
          /\ body_log' = [body_log EXCEPT !.base = b, !.writes = << >>]
    /\ UNCHANGED <<added, out, multipartVars, chunkVars, queryVars, requestVars>>

\* EmptyResponse::respond
EmptyRespond ==
    /\ resp.kind = "Empty"
    /\ out = Unreturned
    /\ out' = [tag |-> "Ok", headers |-> header_lines(empty_respond_headers(resp)),
               body |-> << >>]
    /\ UNCHANGED <<resp, added, body_log, multipartVars, chunkVars, queryVars, requestVars>>

\* FullResponse::respond
FullRespond ==
    /\ resp.kind = "Full"
    /\ out = Unreturned
    /\ out' = [tag |-> "Ok", headers |-> header_lines(full_respond_headers(resp)),
               body |-> resp.body]
    /\ UNCHANGED <<resp, added, body_log, multipartVars, chunkVars, queryVars, requestVars>>

NextResponse ==
    \/ AddHeader
    \/ WithContentType
    \/ WithBody
    \/ EmptyRespond
    \/ FullRespond

SpecResponse == InitResponse /\ [][NextResponse]_vars

\* The values added under the names equal to `canon` when case is ignored,
\* from the i-th call on, in the order of the calls.
RECURSIVE ValuesAdded(_, _)
ValuesAdded(canon, i) ==
    IF i > Len(added) THEN << >>
    ELSE (IF added[i].canon = canon THEN <<added[i].value>> ELSE << >>)
         \o ValuesAdded(canon, i + 1)

\* The values joined by ", ".
RECURSIVE JoinValues(_)
JoinValues(vs) ==
    IF Len(vs) = 1 THEN vs[1] ELSE vs[1] \o <<44, 32>> \o JoinValues(Tail(vs))

ExpectedHeader(canon) ==
    IF ValuesAdded(canon, 1) = << >> THEN None
    ELSE Some(JoinValues(ValuesAdded(canon, 1)))

(* C18: after any sequence of add_header / with_header calls on an         *)
(* EmptyResponse or a FullResponse, get_header of a name, in any           *)
(* capitalisation, is the values added under the names equal to it when    *)
(* case is ignored, joined by ", " in the order they were added, and None  *)
(* when there are none; the header map has one entry for each such class   *)
(* of names, never two whose names differ only by case.                    *)
C18_HeadersJoined ==
    (resp.kind \in {"Empty", "Full"} /\ out = Unreturned) =>
        /\ \A n \in HeaderNames :
              get_header(resp.headers, n.text) = ExpectedHeader(n.canon)
        /\ DOMAIN resp.headers = {added[i].canon : i \in 1..Len(added)}
        /\ \A k1, k2 \in DOMAIN resp.headers :
              to_lowercase(resp.headers[k1].name) = to_lowercase(resp.headers[k2].name)
                  => k1 = k2

\* "X: 1", "x: 9", "X: 1" on a FullResponse: get_header("x") is "1, 9, 1".
C18_Witness ==
    /\ resp.kind = "Full"
    /\ Len(added) = 3
    /\ added[1].name = <<88>> /\ added[1].value = <<49>>
    /\ added[2].name = <<120>> /\ added[2].value = <<57>>
    /\ added[3].name = <<88>> /\ added[3].value = <<49>>
    /\ get_header(resp.headers, <<120>>) = Some(<<49, 44, 32, 57, 44, 32, 49>>)
    /\ get_header(resp.headers, <<88>>) = get_header(resp.headers, <<120>>)

\* The values of the lines that respond wrote under a name equal to `canon`
\* when case is ignored.
Emitted(canon) == {l[2] : l \in {h \in out.headers : to_lowercase(h[1]) = canon}}

(* C19: when a FullResponse is sent with respond and a content-type header *)
(* was set with add_header or with_header, before or after                 *)
(* with_content_type, the Content-type header written is the value given   *)
(* to with_content_type and nothing else.                                  *)
C19_ContentTypeOverwritten ==
    (/\ resp.kind = "Full"
     /\ out # Unreturned
     /\ ValuesAdded(N_ct.canon, 1) # << >>) =>
        Emitted(N_ct.canon) = {resp.content_type}

(* C20: when a FullResponse with a non-empty body is sent with respond,    *)
(* the Content-length header written is the decimal length of the body in  *)
(* bytes ("5" for "hello", "11" for "hello world"), also when the caller   *)
(* added a content-length header under any capitalisation.                 *)
C20_ContentLengthOverwritten ==
    (resp.kind = "Full" /\ out # Unreturned /\ Len(resp.body) > 0) =>
        Emitted(N_CL.canon) = {IF Len(resp.body) = 5 THEN <<53>> ELSE <<49, 49>>}

(***************************************************************************)
(* The body of a FullResponse: with_content_type, with_body and            *)
(* Write::write, from an EmptyResponse of either status with no header or  *)
(* with the header "X: 1".  At most MaxWrites buffers are written after a  *)
(* with_body.                                                              *)
(***************************************************************************)
MaxWrites == 3

\* Faulty variant of extend_from_slice: the buffer takes the place of the body.
extend_from_replace(bytes, buf) == buf

\* Vec::extend_from_slice
extend_from_slice(bytes, buf) == bytes \o buf

\* "ab", "", "c"
WriteBuffers == {<<97, 98>>, << >>, <<99>>}

BodyStatuses == {200, 404}

InitBody ==
    /\ \E st \in BodyStatuses, hs \in {EmptyMap, add_header(EmptyMap, <<88>>, <<49>>)} :
          resp = [kind |-> "Empty", status |-> st, headers |-> hs]
    /\ added = << >>
    /\ out = Unreturned
    /\ body_log = NoBodyLog
    /\ IdleMultipart
    /\ IdleChunk
    /\ IdleQuery
    /\ IdleRequest

\* <FullResponse as Write>::write
Write ==
    /\ resp.kind = "Full"
    /\ out = Unreturned
    /\ Len(body_log.writes) < MaxWrites
    /\ \E buf \in WriteBuffers :
          /\ resp' = [resp EXCEPT !.body = extend_from_slice(@, buf)]
          /\ body_log' = [body_log EXCEPT !.writes = Append(@, buf),
                                          !.ret = Some([tag |-> "Ok", n |-> Len(buf)])]
    /\ UNCHANGED <<added, out, multipartVars, chunkVars, queryVars, requestVars>>

NextBody ==
    \/ WithContentType
    \/ WithBody
    \/ Write

SpecBody == InitBody /\ [][NextBody]_vars

(* C21: with_content_type gives a FullResponse with an empty body and the  *)
(* status and the headers of the response it consumed; from then on, after *)
(* any with_body and write calls, the body is the argument of the last     *)
(* with_body (empty if there was none) followed by the buffers written     *)
(* since, in order, and the last write returned Ok of the length of its    *)
(* buffer.                                                                 *)
C21_BodyIsBaseAndWrites ==
    /\ resp.kind = "Empty" => body_log = NoBodyLog
    /\ resp.kind = "Full" =>
          /\ body_log.consumed # None
          /\ resp.status = body_log.consumed[1].status
          /\ resp.headers = body_log.consumed[1].headers
          /\ resp.body = body_log.base \o Flatten(body_log.writes)
          /\ body_log.writes # << >> =>
                body_log.ret = Some([tag |-> "Ok",
                                     n |-> Len(body_log.writes[Len(body_log.writes)])])

\* with_body("hello"), then "ab" and "c" written: the body is "helloabc".
C21_Witness ==
    /\ resp.kind = "Full"
    /\ resp.status = 404
    /\ DOMAIN resp.headers = {<<120>>}
    /\ body_log.base = <<104, 101, 108, 108, 111>>
    /\ body_log.writes = <<<<97, 98>>, <<99>>>>
    /\ resp.body = <<104, 101, 108, 108, 111, 97, 98, 99>>
    /\ body_log.ret = Some([tag |-> "Ok", n |-> 1])

\* The offsets at or after `from` at which newline + delimiter begins.
SeparatorsFrom(from) ==
    {k \in Occurrences(body_bytes, HTTP_NEWLINE \o Delimiter) : k >= from}

(* C22: the chunks of read_multipart_body are found in increasing order    *)
(* and do not overlap; each is the span [p, q) of the body where p is the  *)
(* offset just after a delimiter and a newline, and q is the least offset  *)
(* at or after p at which a newline followed by the delimiter begins.  So  *)
(* no chunk, and no part body, holds the newline before its closing        *)
(* delimiter or a byte of that delimiter.                                  *)
C22_ChunkSpans ==
    /\ \A i \in 1..Len(chunks) :
          LET p == chunks[i].start
              q == chunks[i].end
          IN  /\ p >= Len(Delimiter) + 2
              /\ Slice(body_bytes, p - Len(Delimiter) - 2, p) = Delimiter \o HTTP_NEWLINE
              /\ SeparatorsFrom(p) # {}
              /\ q = Min(SeparatorsFrom(p))
              /\ i > 1 => p = chunks[i - 1].end + 2 + Len(Delimiter) + 2
    /\ (pc = "done" /\ body.tag = "Multipart") =>
          /\ Len(body.parts) = Len(chunks)
          /\ \A i \in 1..Len(chunks) :
                LET b == body.parts[i].body
                    c == ChunkBytes(body_bytes, chunks[i])
                IN  /\ Len(b) <= Len(c)
                    /\ b = SubSeq(c, Len(c) - Len(b) + 1, Len(c))

\* Two parts, the first with the payload "p\r\n:q": its chunk ends at the
\* newline before the delimiter, not at the newline inside the payload.
C22_Witness ==
    /\ Len(shape) = 2
    /\ shape[1].headers = << >>
    /\ shape[1].payload = <<112, 13, 10, 58, 113>>
    /\ pc = "done"
    /\ Len(chunks) = 2
    /\ chunks[1] = [start |-> 5, end |-> 12]
    /\ chunks[2].start = 19

\* The offset just after the delimiter that ended the i-th chunk.
AfterDelimiter(i) == chunks[i].end + 2 + Len(Delimiter)

\* The delimiter that ended the i-th chunk is followed by a newline.
NewlineFollows(i) ==
    /\ AfterDelimiter(i) + 2 <= Len(body_bytes)
    /\ body_bytes[AfterDelimiter(i) + 1] = 13
    /\ body_bytes[AfterDelimiter(i) + 2] = 10

(* C23: once a chunk is recorded, if the delimiter that ended it is        *)
(* followed by a newline, the scan goes on and the next chunk starts just  *)
(* after that newline; if it is not (it is followed by `--`, by other      *)
(* bytes or by the end of the buffer), the scan stops there, the rest of   *)
(* the body is not looked at, and the result is Body::Multipart of the     *)
(* chunks found so far, not an error.                                      *)
C23_ContinueOrStop ==
    /\ \A i \in 1..(Len(chunks) - 1) :
          NewlineFollows(i) /\ chunks[i + 1].start = AfterDelimiter(i) + 2
    /\ (Len(chunks) >= 1 /\ pc \in {"find", "scan", "push"}) =>
          /\ NewlineFollows(Len(chunks))
          /\ position = AfterDelimiter(Len(chunks)) + 2
    /\ (Len(chunks) >= 1 /\ ~NewlineFollows(Len(chunks))) =>
          /\ pc \in {"parts", "done"}
          /\ position = AfterDelimiter(Len(chunks))
          /\ pc = "done" =>
                /\ body.tag = "Multipart"
                /\ body.parts = collect_parts(read_chunks(body_bytes, chunks))
                /\ Len(body.parts) = Len(chunks)

\* A framed body of two parts: the second chunk ends at the closing
\* delimiter, which `--` follows.
C23_Witness ==
    /\ Len(shape) = 2
    /\ SeparatorsOnly
    /\ pc = "done"
    /\ Len(chunks) = 2
    /\ ~NewlineFollows(2)
    /\ position = Len(body_bytes) - 2
    /\ body.tag = "Multipart"
    /\ Len(body.parts) = 2

\* The i-th part is made of the i-th chunk: its body is the end of that
\* chunk, and its headers are those of the lines before that end.
PartIsOfChunk(i) ==
    LET ch == ChunkBytes(body_bytes, chunks[i])
        p  == body.parts[i]
    IN  /\ Len(p.body) <= Len(ch)
        /\ p.body = SliceFrom(ch, Len(ch) - Len(p.body))
        /\ p.headers = chunk_loop(ch, 0, EmptyMap).headers

(* C24: read_multipart_chunk returns Ok for each chunk found, so that      *)
(* Body::Multipart holds as many parts as chunks were found, the i-th part *)
(* made of the i-th chunk: no chunk is dropped.                            *)
C24_OnePartPerChunk ==
    /\ \A i \in 1..Len(chunks) :
          read_multipart_chunk(ChunkBytes(body_bytes, chunks[i])).tag = "Ok"
    /\ (pc = "done" /\ body.tag = "Multipart") =>
          /\ Len(body.parts) = Len(chunks)
          /\ \A i \in 1..Len(chunks) : PartIsOfChunk(i)

\* Two chunks, the first with a header and a payload, the second with
\* neither: both are parts, in that order.
C24_Witness ==
    /\ pc = "done"
    /\ body.tag = "Multipart"
    /\ Len(chunks) = 2
    /\ Len(body.parts) = 2
    /\ body.parts[1].headers # EmptyMap
    /\ body.parts[1].body # << >>
    /\ body.parts[2] = [headers |-> EmptyMap, body |-> << >>]

\* The chunk is written without `%` and without `+`: it decodes to itself.
PlainChunk(t) == \A k \in 1..Len(t) : t[k] \notin {PERCENT, PLUS}

\* The place of the first `=` of the chunk, counted from 1.
FirstEquals(t) ==
    CHOOSE k \in 1..Len(t) : t[k] = EQUALS /\ \A j \in 1..(k - 1) : t[j] # EQUALS

(* C25: each chunk of the query string is split at its first `=` only:     *)
(* what is before it is the name, all that is after it, further `=`        *)
(* included, is the value.  "a=b=c" gives a -> "b=c", "a=" gives a -> "",  *)
(* and "=v" gives "" -> "v".                                               *)
C25_SplitAtFirstEquals ==
    query.tag = "Some" =>
        \A i \in 1..Len(qshape) :
            LET t == qshape[i].text
            IN  /\ \E k \in 1..Len(t) : t[k] = EQUALS
                /\ (/\ PlainChunk(t)
                    /\ \A j \in (i + 1)..Len(qshape) : qshape[j].name # qshape[i].name) =>
                      LET k == FirstEquals(t)
                      IN  /\ SubSeq(t, 1, k - 1) \in DOMAIN query.map
                          /\ query.map[SubSeq(t, 1, k - 1)] = SubSeq(t, k + 1, Len(t))

\* "a=&=v&a=b=c" gives a -> "b=c" and "" -> "v".
C25_Witness ==
    /\ qshape = <<Q_a, Q_v, Q_abc>>
    /\ query.tag = "Some"
    /\ DOMAIN query.map = {<<97>>, << >>}
    /\ query.map[<<97>>] = <<98, 61, 99>>
    /\ query.map[<< >>] = <<118>>

\* The offsets of the newlines of the chunk, and the j-th of them.
ChunkNewlines == Occurrences(chunk, HTTP_NEWLINE)
NthNewline(j) ==
    CHOOSE x \in ChunkNewlines : Cardinality({y \in ChunkNewlines : y < x}) = j - 1

\* The j-th line that a newline ends: from LineStart(j) to NthNewline(j).
LineStart(j) == IF j = 1 THEN 0 ELSE NthNewline(j - 1) + 2
LineHasColon(j) == \E k \in (LineStart(j) + 1)..NthNewline(j) : chunk[k] = COLON

\* How many lines at the head of the chunk hold a colon, and how many
\* lines are consumed: those, and the line after them if there is one.
HeaderLineCount ==
    Cardinality({j \in 1..Cardinality(ChunkNewlines) :
                    \A k \in 1..j : LineHasColon(k)})
ConsumedLines ==
    IF HeaderLineCount < Cardinality(ChunkNewlines)
    THEN HeaderLineCount + 1 ELSE HeaderLineCount
BodyStart == IF ConsumedLines = 0 THEN 0 ELSE NthNewline(ConsumedLines) + 2

HeaderOfLine(j) == match_header(Slice(chunk, LineStart(j), NthNewline(j)))[1]

\* The headers of the header lines, the last line of a name giving its value.
HeadersOfLines ==
    [n \in {HeaderOfLine(j)[1] : j \in 1..HeaderLineCount} |->
        LET last == CHOOSE j \in 1..HeaderLineCount :
                        /\ HeaderOfLine(j)[1] = n
                        /\ \A k \in 1..HeaderLineCount : HeaderOfLine(k)[1] = n => k <= j
        IN  HeaderOfLine(last)[2]]

(* C26: the body of a part is the end of its chunk.  The lines at the head *)
(* of the chunk that a newline ends are consumed while they hold a colon,  *)
(* each one a header, the last line of a name giving its value; the first  *)
(* such line without a colon is consumed too and dropped, empty or not,    *)
(* and the body starts after its newline; when there is no such line the   *)
(* body is what follows the last header line; a chunk without a newline    *)
(* is all body, with no headers.                                           *)
C26_BodyIsSuffix ==
    part # Unreturned =>
        /\ part.tag = "Ok"
        /\ part.body = SubSeq(chunk, BodyStart + 1, Len(chunk))
        /\ part.headers = HeadersOfLines
        /\ ChunkNewlines = {} => (part.headers = EmptyMap /\ part.body = chunk)

\* "a\r\n:\r\n": the line "a" is dropped, and ":\r\n" is the body.
C26_Witness ==
    /\ chunk = <<97, 13, 10, 58, 13, 10>>
    /\ part = [tag |-> "Ok", headers |-> EmptyMap, body |-> <<58, 13, 10>>]

\* The string has an empty chunk: it is empty, it starts or ends with `&`,
\* or it holds `&&`.
HasEmptyChunk(s) ==
    \/ s = << >>
    \/ s[1] = AMPERSAND
    \/ s[Len(s)] = AMPERSAND
    \/ \E i \in 1..(Len(s) - 1) : s[i] = AMPERSAND /\ s[i + 1] = AMPERSAND

\* What C27 asks of the query q of the request.
EmptyChunkRule(q) ==
    /\ q = QueryNone <=> rshape.q = << >>
    /\ (rshape.q # << >> /\ HasEmptyChunk(rshape.q[1].v)) =>
          /\ q.tag = "Err"
          /\ q.code = 400
          /\ q.details = "not a name=vlaue pair"
          /\ q.chunk = << >>

(* C27: a QUERY_STRING that is there and has an empty chunk (the empty     *)
(* string, a string that starts or ends with `&`, a string with `&&`)      *)
(* gives Query::Err and never Query::Some; the query is Query::None only   *)
(* when there is no QUERY_STRING.                                          *)
C27_EmptyChunkIsErr ==
    /\ rpc \notin {"idle", "env"} => EmptyChunkRule(query)
    /\ rpc = "done" => EmptyChunkRule(ret.query)

\* QUERY_STRING is the empty string: the request has a Query::Err.
C27_Witness ==
    /\ rshape.q = <<QS_empty>>
    /\ QUERY_STRING \in DOMAIN vars_map
    /\ vars_map[QUERY_STRING] = << >>
    /\ rpc = "done"
    /\ ret.query.tag = "Err"

\* All that follows the first `boundary=` of the content type.
AfterBoundaryEquals ==
    LET ct == rshape.type[1].v
        at == Min(Occurrences(ct, MULTIPART_BOUNDARY))
    IN  SubSeq(ct, at + Len(MULTIPART_BOUNDARY) + 1, Len(ct))

(* C28: the boundary given to read_multipart_body is all that follows the  *)
(* first `boundary=` after `multipart/form-data` in the content type, as   *)
(* it is written: quotes, further parameters after `;` and a space at the  *)
(* end are part of it, and the delimiter looked for in the body is `--`    *)
(* followed by it; when nothing follows `boundary=` the delimiter is `--`. *)
C28_BoundaryVerbatim ==
    (ReadOk /\ TypeKind = "multipart" /\ rpc \notin {"env", "body", "read_body"}) =>
        /\ rpc \in {"multipart", "done"}
        /\ pc # "idle"
        /\ boundary = rshape.type[1].boundary
        /\ boundary = AfterBoundaryEquals
        /\ Delimiter = <<45, 45>> \o AfterBoundaryEquals
        /\ body_bytes = BytesRead
        /\ (pc = "done" /\ Occurrences(BytesRead, <<45, 45>> \o AfterBoundaryEquals) = {}) =>
              body = BodyErr(400, "multipart body missing boundary string")
        /\ (pc = "done" /\ rshape.type = <<CT_blank>> /\ Len(stdin) = 13) =>
              body = BodyMultipart(<<[headers |-> EmptyMap, body |-> <<112>>]>>)

\* "multipart/form-data; boundary=" and a body of one part framed by `--`.
C28_Witness ==
    /\ rshape.type = <<CT_blank>>
    /\ rshape.len = <<CL_13>>
    /\ Len(stdin) = 13
    /\ rpc = "done"
    /\ boundary = << >>
    /\ ret.body = BodyMultipart(<<[headers |-> EmptyMap, body |-> <<112>>]>>)

\* The parts of the framed body whose payload begins with the delimiter and
\* goes on, as "--Xy" does.
CutParts ==
    {i \in 1..Len(shape) :
        /\ Len(shape[i].payload) > Len(Delimiter)
        /\ SubSeq(shape[i].payload, 1, Len(Delimiter)) = Delimiter}

\* The parts up to the first cut one, which has its headers and no body.
PartsUpToCut ==
    LET k == Min(CutParts)
    IN  [i \in 1..k |-> IF i < k THEN ExpectedParts(shape)[i]
                        ELSE [headers |-> ExpectedParts(shape)[i].headers,
                              body |-> << >>]]

(* C29: the end of a chunk is a match of the delimiter as a prefix: a      *)
(* newline followed by bytes that begin with the delimiter ends the chunk, *)
(* whatever comes after those bytes.  A payload line that begins with the  *)
(* delimiter and goes on (`--Xy` under the boundary X) ends its chunk      *)
(* there, and as no newline follows that delimiter the scan ends too: the  *)
(* part has no body and the parts after it are missing.                    *)
C29_PrefixMatchCuts ==
    (Framed /\ CutParts # {}) =>
        /\ pc # "panic"
        /\ Len(chunks) <= Min(CutParts)
        /\ pc = "done" =>
              /\ Len(chunks) = Min(CutParts)
              /\ body = BodyMultipart(PartsUpToCut)

\* Two parts, the payload of the first "--Xy": it is the only part, without
\* a body.
C29_Witness ==
    /\ Len(shape) = 2
    /\ shape[1].payload = <<45, 45, 88, 121>>
    /\ shape[2].payload = <<112>>
    /\ shape[1].headers # << >>
    /\ pc = "done"
    /\ Len(body.parts) = 1
    /\ body.parts[1].headers # EmptyMap
    /\ body.parts[1].body = << >>

\* The name given at the first add_header call of the names equal to `canon`
\* when case is ignored.
FirstName(canon) ==
    added[Min({i \in 1..Len(added) : added[i].canon = canon})].name

\* The header lines of a response without a body: one for each class of
\* names added, Status apart, and one Status line with the status code.
LinesWithoutBody ==
    {<<FirstName(c), JoinValues(ValuesAdded(c, 1))>> :
        c \in {added[i].canon : i \in 1..Len(added)} \ {STATUS_KEY}}
    \cup {<<STATUS_NAME, <<50, 48, 48>>>>}

\* respond was called on an EmptyResponse, or on a FullResponse whose body
\* is empty.
SentWithoutBody ==
    /\ out # Unreturned
    /\ resp.kind = "Empty" \/ (resp.kind = "Full" /\ resp.body = << >>)

(* C30: for one status code and one sequence of add_header calls,          *)
(* EmptyResponse::respond and FullResponse::respond with an empty body     *)
(* write the same header lines and no body: the headers added, and one     *)
(* Status line whose value is the status code in decimal, also when the    *)
(* caller added a header named Status; a FullResponse with an empty body   *)
(* gets no Content-type and no Content-length line from respond.           *)
C30_SameHeaderLines ==
    SentWithoutBody =>
        /\ out.headers = LinesWithoutBody
        /\ out.body = << >>
        /\ Emitted(STATUS_KEY) = {<<50, 48, 48>>}

\* The same, for the responses to which no header named Status was added.
SameHeaderLinesNoStatusAdded ==
    (SentWithoutBody /\ ValuesAdded(STATUS_KEY, 1) = << >>) =>
        /\ out.headers = LinesWithoutBody
        /\ out.body = << >>
        /\ Emitted(STATUS_KEY) = {<<50, 48, 48>>}

\* The same, for EmptyResponse alone.
SameHeaderLinesEmpty ==
    (SentWithoutBody /\ resp.kind = "Empty") =>
        /\ out.headers = LinesWithoutBody
        /\ out.body = << >>
        /\ Emitted(STATUS_KEY) = {<<50, 48, 48>>}

====
